---- MODULE Spec2Model ----
(***************************************************************************)
(* tespy.networks.network: the connection table, the topology check, the   *)
(* degrees-of-freedom check and the Newton iteration of solve (Spec); the  *)
(* damped pressure update (SpecPressure), the fluid balance through the    *)
(* iterations (SpecBalance), init_fluids with the recursion of init_target *)
(* and init_source (SpecFluids), the assembly of the residual vector and   *)
(* of the Jacobian (SpecAssembly), the range repair of solve_check_props   *)
(* (SpecRepair) and the dicts the first loop of init_fluids builds         *)
(* (SpecEntries).  Spec takes the norm of the residual vector of a pass as *)
(* an input; SpecAssembly follows how the vector and the matrix are built. *)
(*                                                                         *)
(* Numbers are scaled to small integers: a residual norm is an integer     *)
(* with Tol standing for hlp.err ** (1 / 2); a mass fraction is counted in *)
(* halves of hlp.err, with FracOne standing for the fraction 1.            *)
(***************************************************************************)
EXTENDS Integers, Sequences, FiniteSets, TLC

VARIABLES
    conns,      \* self.conns: the rows of the connection table, in order
    checked,    \* self.checked
    comps,      \* self.comps: the component table built by init_components
    label,      \* comp.label of every component object
    busses,     \* self.busses
    fluids,     \* self.fluids
    cset,       \* per connection object: val_set / ref_set / fluid.val_set / fluid.balance
    exc,        \* the exception the most recent call of the API raised
    pc,         \* position of solve: Uninitialized, Iterating, Terminal, Raised
    max_iter,   \* self.max_iter
    parallel,   \* self.parallel
    partit,     \* self.partit: cpu_count() if parallel, else 1
    init_file,  \* self.init_file is not None
    iter,       \* self.iter
    nxt,        \* next value the loop's range(self.max_iter) yields
    res,        \* self.res: the residual norms, the last ResKeep of them
    lin_dep,    \* self.lin_dep (FALSE until solve_control assigns it)
    vec_z,      \* self.vec_z: the increment of the last iteration
    errmsg,     \* what solve_loop returned
    pool,       \* self.pool of the current call of solve: none, open, closed
    vals,       \* per connection object: m.val_SI, p.val_SI, h.val_SI, fluid.val
    val0,       \* per connection object: the starting values m.val0 ... fluid.val0
    cvar,       \* value of the component free variable (cp.vars)
    n_ctrl,     \* calls of solve_control in the current call of solve
    n_pool,     \* worker pools created in the current call of solve
    todo,       \* init_fluids: the rows its propagation loop has yet to visit
    stack,      \* init_fluids: the calls of init_target / init_source in progress
    hooks,      \* init_fluids: calls of a component's initialise_fluids
    memo,       \* hlp.memorise: empty, filled, cleared (emptied by
                \* del_memory), refilled (filled after del_memory)
    vec_res,    \* self.vec_res: for every entry the equation it is the
                \* residual of
    mat_deriv   \* self.mat_deriv: for every row the equation whose
                \* derivatives were written to it, and per column block
                \* the objects whose derivatives it holds

vars == <<conns, checked, comps, label, busses, fluids, cset, exc, pc,
          max_iter, parallel, partit, init_file, iter, nxt, res, lin_dep,
          vec_z, errmsg, pool, vals, val0, cvar, n_ctrl, n_pool, todo, stack,
          hooks, memo, vec_res, mat_deriv>>

netVars == <<conns, checked, comps, label, busses, fluids, cset>>
solveVars == <<pc, max_iter, parallel, partit, init_file, iter, nxt, res,
               lin_dep, vec_z, errmsg, pool, vals, val0, cvar, n_ctrl, n_pool,
               memo>>
initVars == <<todo, stack, hooks>>
asmVars == <<vec_res, mat_deriv>>

(***************************************************************************)
(* Bounds of the model.                                                    *)
(***************************************************************************)
\* longest argument list of one add_conns call
MaxArgs == 2
\* largest max_iter handed to solve
MaxIterCap == 23
\* largest cpu_count()
MaxCores == 3
\* largest distance of m, p, h from their starting defaults
MaxVal == 1

(***************************************************************************)
(* Sequence helpers.                                                       *)
(***************************************************************************)
Range(s) == {s[i] : i \in 1..Len(s)}

\* position of x in s, 0 if absent (pandas Index.get_loc)
get_loc(s, x) == IF x \in Range(s) THEN CHOOSE i \in 1..Len(s) : s[i] = x ELSE 0

\* s without the rows whose index is x (self.conns[self.conns.index != c])
Without(s, x) == SelectSeq(s, LAMBDA y : y # x)

RECURSIVE SumSeq(_)
SumSeq(s) == IF s = <<>> THEN 0 ELSE Head(s) + SumSeq(Tail(s))

\* all sequences over S of length 1..n
SeqsUpTo(S, n) == UNION {[1..k -> S] : k \in 1..n}

(***************************************************************************)
(* The objects the caller builds: components and connections.              *)
(***************************************************************************)
Comps == {"A", "B", "C"}

\* the class of every component object: A, B, C are the components of the
\* networks that are solved, the others those of the networks whose fluids
\* are initialised ("pipe" stands for any class with one inlet and one
\* outlet)
CompKind ==
    [A |-> "source", B |-> "pipe", C |-> "sink",
     Sa |-> "source", Sb |-> "source", Sc |-> "source", Sd |-> "source",
     Ka |-> "sink", Kb |-> "sink", Kc |-> "sink",
     Pa |-> "pipe", Pb |-> "pipe",
     HX |-> "heat_exchanger", SP |-> "splitter", M |-> "merge",
     D1 |-> "drum", D2 |-> "drum", CG |-> "cogeneration_unit"]

kind(cp) == CompKind[cp]

\* comp.inlets() / comp.outlets() of every class
InletsOf ==
    [source |-> <<>>, sink |-> <<"in1">>, pipe |-> <<"in1">>,
     heat_exchanger |-> <<"in1", "in2">>, splitter |-> <<"in1">>,
     merge |-> <<"in1", "in2">>, drum |-> <<"in1", "in2">>,
     cogeneration_unit |-> <<"in1", "in2", "in3", "in4">>]
OutletsOf ==
    [source |-> <<"out1">>, sink |-> <<>>, pipe |-> <<"out1">>,
     heat_exchanger |-> <<"out1", "out2">>, splitter |-> <<"out1", "out2">>,
     merge |-> <<"out1">>, drum |-> <<"out1", "out2">>,
     cogeneration_unit |-> <<"out1", "out2", "out3">>]

inlets(cp) == InletsOf[kind(cp)]
outlets(cp) == OutletsOf[kind(cp)]

Conn(s, s_id, t, t_id) == [s |-> s, s_id |-> s_id, t |-> t, t_id |-> t_id]

\* the connection objects: c.s, c.s_id, c.t, c.t_id
ConnObj ==
    [c1 |-> Conn("A", "out1", "B", "in1"),
     c2 |-> Conn("B", "out1", "C", "in1"),
     c3 |-> Conn("A", "out1", "C", "in1"),
     \* a chain
     n1 |-> Conn("Sa", "out1", "Pa", "in1"),
     n2 |-> Conn("Pa", "out1", "Pb", "in1"),
     n3 |-> Conn("Pb", "out1", "Ka", "in1"),
     \* a splitter, one outlet leading on through a pipe
     s1 |-> Conn("Sa", "out1", "SP", "in1"),
     s2 |-> Conn("SP", "out1", "Pa", "in1"),
     s3 |-> Conn("SP", "out2", "Kb", "in1"),
     s4 |-> Conn("Pa", "out1", "Ka", "in1"),
     \* a heat exchanger
     h1 |-> Conn("Sa", "out1", "HX", "in1"),
     h2 |-> Conn("HX", "out1", "Ka", "in1"),
     h3 |-> Conn("Sb", "out1", "HX", "in2"),
     h4 |-> Conn("HX", "out2", "Kb", "in1"),
     \* a ring of two pipes
     r1 |-> Conn("Pa", "out1", "Pb", "in1"),
     r2 |-> Conn("Pb", "out1", "Pa", "in1"),
     \* a drum with its evaporator loop
     d1 |-> Conn("Sa", "out1", "Pa", "in1"),
     d2 |-> Conn("Pa", "out1", "D1", "in1"),
     d3 |-> Conn("D1", "out1", "Pb", "in1"),
     d4 |-> Conn("Pb", "out1", "D1", "in2"),
     d5 |-> Conn("D1", "out2", "Ka", "in1"),
     \* two drums in one loop
     e1 |-> Conn("Sa", "out1", "Pa", "in1"),
     e2 |-> Conn("Pa", "out1", "D1", "in1"),
     e3 |-> Conn("D1", "out1", "D2", "in1"),
     e4 |-> Conn("D2", "out1", "D1", "in2"),
     e5 |-> Conn("D1", "out2", "Ka", "in1"),
     e6 |-> Conn("Sb", "out1", "D2", "in2"),
     e7 |-> Conn("D2", "out2", "Kb", "in1"),
     \* a merge
     m1 |-> Conn("Sa", "out1", "M", "in1"),
     m2 |-> Conn("Sb", "out1", "M", "in2"),
     m3 |-> Conn("M", "out1", "Ka", "in1"),
     \* a cogeneration unit
     g1 |-> Conn("Sa", "out1", "CG", "in1"),
     g2 |-> Conn("Sb", "out1", "CG", "in2"),
     g3 |-> Conn("Sc", "out1", "CG", "in3"),
     g4 |-> Conn("Sd", "out1", "CG", "in4"),
     g5 |-> Conn("CG", "out1", "Ka", "in1"),
     g6 |-> Conn("CG", "out2", "Kb", "in1"),
     g7 |-> Conn("CG", "out3", "Kc", "in1")]

\* the connection objects of the networks that are solved
ConnIds == {"c1", "c2", "c3"}

\* what add_conns may be handed: connection objects and one object that is
\* no connection
NotAConn == "nc"
Args == ConnIds \cup {NotAConn}

\* the argument lists of add_conns
ArgLists == SeqsUpTo(Args, MaxArgs)

\* the labels of the components: distinct, or B and C labelled alike
Distinct == [A |-> "a", B |-> "b", C |-> "c"]
Alike == [A |-> "a", B |-> "b", C |-> "b"]

(***************************************************************************)
(* Exceptions.                                                             *)
(***************************************************************************)
\* arg: the labels the message names; n1, n2: its numbers
Exc(type, what, arg, n1, n2) ==
    [type |-> type, what |-> what, arg |-> arg, n1 |-> n1, n2 |-> n2]

NoExc == Exc("none", "none", {}, 0, 0)

(***************************************************************************)
(* add_conns, check_conns, del_conns.                                      *)
(***************************************************************************)
\* the columns duplicated() compares: ['s', 's_id'] or ['t', 't_id']
PortKey(c, side) ==
    IF side = "s" THEN <<ConnObj[c].s, ConnObj[c].s_id>>
    ELSE <<ConnObj[c].t, ConnObj[c].t_id>>

\* self.conns.duplicated(keys)[c]: an earlier row holds the same key
duplicated(rows, side, c) ==
    \E i \in 1..Len(rows) :
        i < get_loc(rows, c) /\ PortKey(rows[i], side) = PortKey(c, side)

\* self.conns.loc[c] = [...]: overwrite the row of c, or append it
loc_set(rows, c) == IF c \in Range(rows) THEN rows ELSE Append(rows, c)

\* a plausible slip: the rejected row is left in the table
check_conns_keep(rows, c) ==
    IF c \notin ConnIds
    THEN [conns |-> rows, exc |-> Exc("TypeError", "not a connection", {}, 0, 0)]
    ELSE LET added == loc_set(rows, c) IN
         IF duplicated(added, "s", c)
         THEN [conns |-> added,
               exc |-> Exc("MyNetworkError", "source is already in use", {}, 0, 0)]
         ELSE IF duplicated(added, "t", c)
         THEN [conns |-> added,
               exc |-> Exc("MyNetworkError", "target is already in use", {}, 0, 0)]
         ELSE [conns |-> added, exc |-> NoExc]

check_conns(rows, c) ==
    IF c \notin ConnIds
    THEN [conns |-> rows, exc |-> Exc("TypeError", "not a connection", {}, 0, 0)]
    ELSE LET added == loc_set(rows, c) IN
         IF duplicated(added, "s", c)
         THEN [conns |-> Without(added, c),
               exc |-> Exc("MyNetworkError", "source is already in use", {}, 0, 0)]
         ELSE IF duplicated(added, "t", c)
         THEN [conns |-> Without(added, c),
               exc |-> Exc("MyNetworkError", "target is already in use", {}, 0, 0)]
         ELSE [conns |-> added, exc |-> NoExc]

\* the loop of add_conns over its arguments; an exception ends it
RECURSIVE add_conns_loop(_, _, _)
add_conns_loop(rows, chk, args) ==
    IF args = <<>>
    THEN [conns |-> rows, checked |-> chk, exc |-> NoExc]
    ELSE LET r == check_conns(rows, Head(args)) IN
         IF r.exc # NoExc
         THEN [conns |-> r.conns, checked |-> chk, exc |-> r.exc]
         ELSE add_conns_loop(r.conns, FALSE, Tail(args))

\* the network is built before solve is called for the first time
\* (max_iter = 0 until then)
add_conns(args) ==
    /\ max_iter = 0
    /\ LET r == add_conns_loop(conns, checked, args) IN
        /\ conns' = r.conns
        /\ checked' = r.checked
        /\ exc' = r.exc
    /\ UNCHANGED <<comps, label, busses, fluids, cset>>
    /\ UNCHANGED solveVars
    /\ UNCHANGED initVars
    /\ UNCHANGED asmVars

\* self.conns.index is an Index object, not a method: calling it raises
\* TypeError before drop() and before self.checked = False
del_conns(c) ==
    /\ max_iter = 0
    /\ exc' = Exc("TypeError", "'Index' object is not callable", {}, 0, 0)
    /\ UNCHANGED netVars
    /\ UNCHANGED solveVars
    /\ UNCHANGED initVars
    /\ UNCHANGED asmVars

(***************************************************************************)
(* check_network, init_components.                                         *)
(***************************************************************************)
\* self.conns[['s', 't']].values.ravel()
RECURSIVE ravel(_)
ravel(rows) ==
    IF rows = <<>> THEN <<>>
    ELSE <<ConnObj[Head(rows)].s, ConnObj[Head(rows)].t>> \o ravel(Tail(rows))

\* pd.unique: first occurrences, in order
RECURSIVE unique(_)
unique(s) ==
    IF s = <<>> THEN <<>>
    ELSE LET r == unique(SubSeq(s, 1, Len(s) - 1)) IN
         IF s[Len(s)] \in Range(r) THEN r ELSE Append(r, s[Len(s)])

\* (self.conns[['s', 't']] == comp).sum().s and .t
num_o(rows, cp) == Cardinality({i \in 1..Len(rows) : ConnObj[rows[i]].s = cp})
num_i(rows, cp) == Cardinality({i \in 1..Len(rows) : ConnObj[rows[i]].t = cp})

\* labels that collections.Counter counts more than once
duplicates(cmps, lab) ==
    {lab[cmps[i]] : i \in {j \in 1..Len(cmps) :
        \E k \in 1..Len(cmps) : k # j /\ lab[cmps[k]] = lab[cmps[j]]}}

init_components(cmps, lab) ==
    IF duplicates(cmps, lab) # {}
    THEN Exc("MyNetworkError", "duplicate labels", duplicates(cmps, lab), 0, 0)
    ELSE NoExc

\* a plausible slip: only the outgoing side is compared
RECURSIVE check_ports_out(_, _, _)
check_ports_out(rows, cmps, lab) ==
    IF cmps = <<>> THEN NoExc
    ELSE LET cp == Head(cmps) IN
         IF num_o(rows, cp) # Len(outlets(cp))
         THEN Exc("MyNetworkError", "missing outgoing connections", {lab[cp]},
                  Len(outlets(cp)) - num_o(rows, cp), 0)
         ELSE check_ports_out(rows, Tail(cmps), lab)

\* the loop of check_network over self.comps.index
RECURSIVE check_ports(_, _, _)
check_ports(rows, cmps, lab) ==
    IF cmps = <<>> THEN NoExc
    ELSE LET cp == Head(cmps) IN
         IF num_o(rows, cp) # Len(outlets(cp))
         THEN Exc("MyNetworkError", "missing outgoing connections", {lab[cp]},
                  Len(outlets(cp)) - num_o(rows, cp), 0)
         ELSE IF num_i(rows, cp) # Len(inlets(cp))
         THEN Exc("MyNetworkError", "missing incoming connections", {lab[cp]},
                  Len(inlets(cp)) - num_i(rows, cp), 0)
         ELSE check_ports(rows, Tail(cmps), lab)

\* what check_network raises (NoExc if it returns) for the table rows
check_network_exc(rows, lab) ==
    LET cmps == unique(ravel(rows)) IN
    IF init_components(cmps, lab) # NoExc THEN init_components(cmps, lab)
    ELSE check_ports(rows, cmps, lab)

check_network ==
    /\ max_iter = 0
    /\ comps' = unique(ravel(conns))
    /\ exc' = check_network_exc(conns, label)
    /\ checked' = IF exc' = NoExc THEN TRUE ELSE checked
    /\ UNCHANGED <<conns, label, busses, fluids, cset>>
    /\ UNCHANGED solveVars
    /\ UNCHANGED initVars
    /\ UNCHANGED asmVars

(***************************************************************************)
(* What the caller set on the connections, components and busses.          *)
(***************************************************************************)
\* all fluid names a connection may carry a fraction for
AllFluids == {"f1", "f2", "f3"}

\* the fluid list a network is built with (sorted, as __init__ sorts it)
TwoFluids == <<"f1", "f2">>

\* the parameter sets given to a connection object: m, p, h and both
\* fractions fixed; T fixed and the fluid balance; m referring to another
\* connection
PFull ==
    [val_set |-> {"m", "p", "h"}, ref_set |-> {}, fluid_set |-> {"f1", "f2"},
     balance |-> FALSE]
PTemp == [val_set |-> {"T"}, ref_set |-> {}, fluid_set |-> {}, balance |-> TRUE]
PRef == [val_set |-> {}, ref_set |-> {"m"}, fluid_set |-> {}, balance |-> FALSE]

\* the ways the caller parametrised the three connection objects
Determined == [c1 |-> PFull, c2 |-> PTemp, c3 |-> PTemp]
OneShort == [c1 |-> PFull, c2 |-> PRef, c3 |-> PTemp]
TooMany == [c1 |-> PFull, c2 |-> PFull, c3 |-> PRef]

\* b1 has its power fixed (b.P.val_set), b2 has not
TwoBusses == <<"b1", "b2">>
P_val_set(b) == b = "b1"

\* the networks the caller set up: component labels, busses, fluids and
\* connection parameters
Setups ==
    {[label |-> Distinct, busses |-> <<>>, fluids |-> TwoFluids, cset |-> Determined],
     [label |-> Distinct, busses |-> TwoBusses, fluids |-> TwoFluids, cset |-> Determined],
     [label |-> Distinct, busses |-> <<>>, fluids |-> TwoFluids, cset |-> OneShort],
     [label |-> Distinct, busses |-> <<>>, fluids |-> TwoFluids, cset |-> TooMany],
     [label |-> Alike, busses |-> <<>>, fluids |-> TwoFluids, cset |-> Determined],
     [label |-> Distinct, busses |-> <<>>, fluids |-> <<>>, cset |-> Determined]}

\* len(cp.equations()) and cp.num_c_vars of the component contract: sources
\* and sinks have none, B (and the other components of its class) has one
\* equation per fluid, two more, and one free variable
num_equations(cp, fl) == IF kind(cp) = "pipe" THEN Len(fl) + 2 ELSE 0
num_c_vars_of(cp) == IF kind(cp) = "pipe" THEN 1 ELSE 0

(***************************************************************************)
(* solve_determination.                                                    *)
(***************************************************************************)
\* self.num_vars
num_vars(fl) == Len(fl) + 3

\* self.num_c_vars
num_c_vars(cmps) == SumSeq([i \in 1..Len(cmps) |-> num_c_vars_of(cmps[i])])

\* the rows one connection supplies; fluid.val_set holds the network's
\* fluids only (init_fluids rebuilt it)
conn_params(cs, fl) ==
    Cardinality(cs.val_set) + Cardinality(cs.ref_set)
    + Cardinality(cs.fluid_set \cap Range(fl))
    + (IF cs.balance THEN 1 ELSE 0)

\* a plausible slip: the busses are not counted
supplied_no_bus(cmps, rows, cs, fl, bs) ==
    SumSeq([i \in 1..Len(cmps) |-> num_equations(cmps[i], fl)])
    + SumSeq([i \in 1..Len(rows) |-> conn_params(cs[rows[i]], fl)])

\* n of solve_determination
supplied(cmps, rows, cs, fl, bs) ==
    SumSeq([i \in 1..Len(cmps) |-> num_equations(cmps[i], fl)])
    + SumSeq([i \in 1..Len(rows) |-> conn_params(cs[rows[i]], fl)])
    + Cardinality({i \in 1..Len(bs) : P_val_set(bs[i])})

required(cmps, rows, fl) == num_vars(fl) * Len(rows) + num_c_vars(cmps)

solve_determination(cmps, rows, cs, fl, bs) ==
    LET n == supplied(cmps, rows, cs, fl, bs)
        r == required(cmps, rows, fl)
    IN  IF n > r
        THEN Exc("MyNetworkError", "too many parameters", {}, r, n)
        ELSE IF n < r
        THEN Exc("MyNetworkError", "not enough parameters", {}, r, n)
        ELSE NoExc

(***************************************************************************)
(* Starting values and initialise.                                         *)
(***************************************************************************)
\* the fraction 1, in halves of hlp.err
FracOne == 8
\* hlp.err, in the same units
Err == 2
\* starting values of init_val0, scaled: m0 = 1, p0 = 1e5, h0 = 1e6
MDefault == 1
PDefault == 1000
HDefault == 1000

\* the fractions the caller fixes on a connection that fixes its fluids: a
\* main fluid and a trace below hlp.err
UserFrac == [f1 |-> 7, f2 |-> 1, f3 |-> 0]

\* the connection objects as the caller built them
StartVals(cs) ==
    [c \in ConnIds |->
        [m |-> MDefault, p |-> PDefault, h |-> HDefault,
         fluid |-> [f \in AllFluids |->
                      IF f \in cs[c].fluid_set THEN UserFrac[f] ELSE 0]]]

\* c.fluid.val_set[f] after init_fluids rebuilt the vector
fluid_val_set(cs, fl, c, f) == f \in Range(fl) /\ f \in cs[c].fluid_set

\* the first loop of init_fluids: one entry per network fluid; a single
\* network fluid gets the fraction 1
init_fluid_vector(v, fl, c) ==
    [f \in AllFluids |->
        IF f \notin Range(fl) THEN v[c].fluid[f]
        ELSE IF Len(fl) = 1 THEN FracOne
        ELSE v[c].fluid[f]]

\* the copy loop without its test of val_set
copy_fluid_all(v, cs, fl, c, d) ==
    [v EXCEPT ![d].fluid =
        [f \in AllFluids |->
            IF f \in Range(fl) THEN v[c].fluid[f] ELSE v[d].fluid[f]]]

\* the copy loop of init_target / init_source: the fractions of c, written
\* to the fractions of d that are not fixed
copy_fluid(v, cs, fl, c, d) ==
    [v EXCEPT ![d].fluid =
        [f \in AllFluids |->
            IF f \in Range(fl) /\ ~fluid_val_set(cs, fl, d, f)
            THEN v[c].fluid[f] ELSE v[d].fluid[f]]]

\* the rows that leave (side "s") or enter (side "t") component cp at port id
port_rows(rows, side, cp, id) ==
    SelectSeq(rows, LAMBDA d : PortKey(d, side) = <<cp, id>>)

\* init_target on the networks of Comps, which hold no loop and no
\* splitter, merge, cogeneration unit or drum: through a component with
\* one inlet and one outlet to the connection at its outlet, and on from
\* there
RECURSIVE init_target(_, _, _, _, _)
init_target(v, rows, cs, fl, c) ==
    LET cp == ConnObj[c].t IN
    IF Len(inlets(cp)) = 1 /\ Len(outlets(cp)) = 1
    THEN LET outc == port_rows(rows, "s", cp, "out1")[1] IN
         init_target(copy_fluid(v, cs, fl, c, outc), rows, cs, fl, outc)
    ELSE v

\* init_source: the same towards the source
RECURSIVE init_source(_, _, _, _, _)
init_source(v, rows, cs, fl, c) ==
    LET cp == ConnObj[c].s IN
    IF Len(inlets(cp)) = 1 /\ Len(outlets(cp)) = 1
    THEN LET inc == port_rows(rows, "t", cp, "in1")[1] IN
         init_source(copy_fluid(v, cs, fl, c, inc), rows, cs, fl, inc)
    ELSE v

\* the loop of init_fluids over the connections with a fixed fraction
RECURSIVE propagate(_, _, _, _, _)
propagate(v, rows, cs, fl, rest) ==
    IF rest = <<>> THEN v
    ELSE LET c == Head(rest) IN
         IF \E f \in Range(fl) : fluid_val_set(cs, fl, c, f)
         THEN propagate(init_source(init_target(v, rows, cs, fl, c),
                                    rows, cs, fl, c),
                        rows, cs, fl, Tail(rest))
         ELSE propagate(v, rows, cs, fl, Tail(rest))

init_fluids(v, rows, cs, fl) ==
    LET built == [c \in ConnIds |->
                    IF c \in Range(rows)
                    THEN [v[c] EXCEPT !.fluid = init_fluid_vector(v, fl, c)]
                    ELSE v[c]]
    IN  IF Len(fl) = 1 THEN built ELSE propagate(built, rows, cs, fl, rows)

\* init_properties: val_SI of m, p, h from the starting values
init_properties(v, v0, rows) ==
    [c \in ConnIds |->
        IF c \in Range(rows)
        THEN [v[c] EXCEPT !.m = v0[c].m, !.p = v0[c].p, !.h = v0[c].h]
        ELSE v[c]]

(***************************************************************************)
(* solve, up to the call of solve_loop.                                    *)
(***************************************************************************)
\* how far solve gets before solve_loop: the check that raises, or the
\* early return of init_only, or "ok"
solve_stage(mode, design_file, init_only, chk, cmps, rows, lab, cs, fl, bs) ==
    IF mode # "offdesign" /\ mode # "design" THEN "mode"
    ELSE IF ~chk /\ check_network_exc(rows, lab) # NoExc THEN "network"
    ELSE IF Len(fl) = 0 THEN "fluids"
    ELSE IF mode = "offdesign" /\ ~design_file THEN "design_file"
    ELSE IF init_only THEN "init_only"
    ELSE IF solve_determination(cmps, rows, cs, fl, bs) # NoExc THEN "dof"
    ELSE "ok"

\* the order of the stages in solve
StageNo ==
    [mode |-> 1, network |-> 2, fluids |-> 3, design_file |-> 4,
     init_only |-> 5, dof |-> 6, ok |-> 7]

\* what solve raises at a stage
stage_exc(st, cmps, rows, lab, cs, fl, bs) ==
    CASE st = "mode" -> Exc("MyNetworkError", "mode", {}, 0, 0)
      [] st = "network" -> check_network_exc(rows, lab)
      [] st = "fluids" -> Exc("MyNetworkError", "no fluids", {}, 0, 0)
      [] st = "design_file" -> Exc("MyNetworkError", "design_file", {}, 0, 0)
      [] st = "dof" -> solve_determination(cmps, rows, cs, fl, bs)
      [] OTHER -> NoExc

\* a plausible slip: the pool is created before solve_determination
creates_pool_early(st, par) == par /\ StageNo[st] >= 6

\* Pool(self.cores) is created after solve_determination returned
creates_pool(st, par) == par /\ st = "ok"

\* solve is called on a network that holds connections
solve_begin(mode, design_file, initf, init_only, maxit, par, cpu) ==
    /\ pc # "Iterating"
    /\ conns # <<>>
    /\ LET cmps == IF checked THEN comps ELSE unique(ravel(conns))
           st == solve_stage(mode, design_file, init_only, checked, cmps,
                             conns, label, cset, fluids, busses)
           no == StageNo[st]
           v1 == init_properties(init_fluids(vals, conns, cset, fluids),
                                 val0, conns)
           \* init_fluids wrote fluid.val0 before the propagation
           v0 == [c \in ConnIds |->
                    IF c \in Range(conns)
                    THEN [val0[c] EXCEPT
                            !.fluid = init_fluid_vector(vals, fluids, c)]
                    ELSE val0[c]]
       IN
        /\ init_file' = initf
        /\ max_iter' = maxit
        /\ parallel' = par
        /\ comps' = IF no >= 2 THEN cmps ELSE comps
        /\ checked' = IF no > 2 THEN TRUE ELSE checked
        /\ vals' = IF no >= 4 THEN v1 ELSE vals
        /\ val0' = IF no >= 5 THEN v1 ELSE IF no = 4 THEN v0 ELSE val0
        /\ res' = IF no >= 6 THEN <<>> ELSE res
        /\ iter' = IF no >= 6 THEN 0 ELSE iter
        /\ nxt' = 0
        /\ partit' = IF no = 7 THEN (IF par THEN cpu ELSE 1) ELSE partit
        /\ pool' = IF creates_pool(st, par) THEN "open" ELSE "none"
        /\ n_pool' = IF creates_pool(st, par) THEN 1 ELSE 0
        /\ n_ctrl' = 0
        /\ errmsg' = "unset"
        /\ exc' = stage_exc(st, cmps, conns, label, cset, fluids, busses)
        /\ pc' = IF st = "ok" THEN "Iterating"
                 ELSE IF st = "init_only" THEN "Uninitialized"
                 ELSE "Raised"
    /\ UNCHANGED <<conns, label, busses, fluids, cset, lin_dep, vec_z, cvar,
                   memo>>
    /\ UNCHANGED initVars
    /\ UNCHANGED asmVars

(***************************************************************************)
(* One iteration: solve_control.                                           *)
(***************************************************************************)
\* the residual norms an iteration may yield; below Tol is converged
Residuals == {0, 1, 2}
\* the entries of the increment an iteration may yield
Increments == {0, 1}
\* hlp.err ** (1 / 2), on the scale of the residual norms
Tol == 1
\* the norms of self.res the loop reads: res[(iter - 3):]
ResKeep == 4
\* the thresholds of solve_loop and of the range repair
ConvIter == 3
StallIter == 20
RepairIter == 3

\* the network's value ranges p_range_SI (in 100 Pa) and h_range_SI (in
\* kJ / kg)
PRangeLo == 2
PRangeHi == 300000
HRangeLo == 1
HRangeHi == 7000
\* hlp.memorise.vrange of a fluid and h_pT at its temperature limits, on the
\* same scales
PMinFl == 10
PMaxFl == 10000000
HMinFl == 3
HMaxFl == 4000
\* h_mix_pT at the limits of T_range_SI
HTMin == 20
HTMax == 2000
\* bounds and starting value of the free variable of B
CvMin == 0
CvMax == 2
CvStart == 1

\* the number of groups of groupby(np.arange(n) // (n / partit))
num_groups(n, P) == Cardinality({(i * P) \div n : i \in 0..(n - 1)})

\* the merge loops of solve_components and solve_connections read
\* data[part] for every part in range(partit): IndexError with fewer groups
merge_fails(cmps, rows, par, P) ==
    par /\ (num_groups(Len(cmps), P) < P \/ num_groups(Len(rows), P) < P)

\* the update of p without the relaxation factor
p_update_undamped(p, dz) == p + dz

\* p.val_SI += dz / max(1, -dz / (0.5 * p)): half of p when the increment
\* would take away more than half of it (p \div 2 is exact for even p)
p_update(p, dz) ==
    IF (p > 0 /\ -2 * dz > p) \/ (p < 0 /\ -2 * dz < p)
    THEN p \div 2
    ELSE p + dz

\* only the lower of the two clamps
clamp_fraction_low_only(x) == IF x < Err THEN 0 ELSE x

\* the two clamps on a fraction
clamp_fraction(x) == IF x < Err THEN 0 ELSE IF x > FracOne - Err THEN FracOne ELSE x

\* hlp.single_fluid: a fluid whose fraction is 1, if there is one
single_fluid(fv, fl) == {f \in Range(fl) : fv[f] = FracOne}

\* solve_check_temperature
solve_check_temperature(h) ==
    LET h1 == IF h < HTMin THEN (HTMin * 105) \div 100 ELSE h
    IN  IF h1 > HTMax THEN (HTMax * 95) \div 100 ELSE h1

\* solve_check_props for the connection values v with parameters cs
solve_check_props(v, cs, fl, it, initf) ==
    LET pset == "p" \in cs.val_set
        hset == "h" \in cs.val_set
    IN
    IF single_fluid(v.fluid, fl) # {}
    THEN LET p1 == IF v.p < PMinFl /\ ~pset THEN (PMinFl * 11) \div 10 ELSE v.p
             p2 == IF p1 > PMaxFl /\ ~pset THEN (PMaxFl * 9) \div 10 ELSE p1
             h1 == IF v.h < HMinFl /\ ~hset
                   THEN (IF v.h < 0 THEN HMinFl \div 3 ELSE HMinFl * 3)
                   ELSE v.h
             h2 == IF h1 > HMaxFl /\ ~hset THEN (HMaxFl * 9) \div 10 ELSE h1
         IN  [v EXCEPT !.p = p2, !.h = h2]
    ELSE IF it < RepairIter /\ ~initf
    THEN LET p1 == IF v.p <= PRangeLo /\ ~pset THEN PRangeLo ELSE v.p
             p2 == IF p1 >= PRangeHi /\ ~pset THEN PRangeHi ELSE p1
             h1 == IF v.h < HRangeLo /\ ~hset THEN HRangeLo ELSE v.h
             h2 == IF h1 > HRangeHi /\ ~hset THEN HRangeHi ELSE h1
             h3 == IF "T" \in cs.val_set /\ ~hset /\ ~pset
                   THEN solve_check_temperature(h2) ELSE h2
         IN  [v EXCEPT !.p = p2, !.h = h3]
    ELSE v

\* the increment of one connection: loc is its row (from 0), z the increment
add_increment(v, cs, fl, loc, z, it, initf) ==
    LET base == loc * num_vars(fl)
        v1 == [v EXCEPT
                 !.m = IF "m" \in cs.val_set THEN @ ELSE @ + z[base + 1],
                 !.p = IF "p" \in cs.val_set THEN @ ELSE p_update(@, z[base + 2]),
                 !.h = IF "h" \in cs.val_set THEN @ ELSE @ + z[base + 3],
                 !.fluid = [f \in AllFluids |->
                    IF f \notin Range(fl) THEN @[f]
                    ELSE clamp_fraction(
                        IF f \in cs.fluid_set THEN @[f]
                        ELSE @[f] + z[base + 3 + get_loc(fl, f)])]]
    IN  solve_check_props(v1, cs, fl, it, initf)

\* the loop of solve_control over self.conns.index
increment_conns(v, rows, cs, fl, z, it, initf) ==
    [c \in ConnIds |->
        IF c \in Range(rows)
        THEN add_increment(v[c], cs[c], fl, get_loc(rows, c) - 1, z, it, initf)
        ELSE v[c]]

\* the free variable of the component: increment, then its bounds
increment_cvar(x, cmps, rows, fl, z) ==
    IF num_c_vars(cmps) = 0 THEN x
    ELSE LET y == x + z[num_vars(fl) * Len(rows) + 1]
         IN  IF y < CvMin THEN CvMin ELSE IF y > CvMax THEN CvMax ELSE y

(***************************************************************************)
(* solve_loop and the rest of solve.                                       *)
(***************************************************************************)
\* np.append(self.res, norm), keeping the norms the loop still reads
append_res(rs, r) ==
    LET a == Append(rs, r) IN
    IF Len(a) > ResKeep THEN SubSeq(a, Len(a) - ResKeep + 1, Len(a)) ELSE a

\* a plausible slip: the test counts the iterations performed, it + 1
converged_count(it, rs) == it + 1 > ConvIter /\ rs[Len(rs)] < Tol

\* self.iter > 3 and self.res[-1] < hlp.err ** (1 / 2)
converged(it, rs) == it > ConvIter /\ rs[Len(rs)] < Tol

\* self.iter > 20 and all(self.res[(self.iter - 3):] >= self.res[-2]) and
\* self.res[-1] >= self.res[-2]
stalled(it, rs) ==
    /\ it > StallIter
    /\ \A i \in 1..Len(rs) : rs[i] >= rs[Len(rs) - 1]
    /\ rs[Len(rs)] >= rs[Len(rs) - 1]

\* a plausible slip: the loop does not stop on a singular Jacobian
loop_step_ignores_lin_dep(it, rs, ld, maxit) ==
    IF converged(it, rs) THEN [ret |-> TRUE, msg |-> "none"]
    ELSE IF stalled(it, rs) THEN [ret |-> TRUE, msg |-> "stall"]
    ELSE IF it + 1 < maxit THEN [ret |-> FALSE, msg |-> "unset"]
    ELSE IF it = maxit - 1 THEN [ret |-> TRUE, msg |-> "maxiter"]
    ELSE [ret |-> TRUE, msg |-> "none"]

\* a plausible slip: the loop runs one pass too many before it gives up
loop_step_late_cap(it, rs, ld, maxit) ==
    IF converged(it, rs) \/ ld THEN [ret |-> TRUE, msg |-> "none"]
    ELSE IF stalled(it, rs) THEN [ret |-> TRUE, msg |-> "stall"]
    ELSE IF it < maxit THEN [ret |-> FALSE, msg |-> "unset"]
    ELSE [ret |-> TRUE, msg |-> "maxiter"]

\* the body of the loop after solve_control, and the code after the loop:
\* ret says whether solve_loop returns, msg what it returns
loop_step(it, rs, ld, maxit) ==
    IF converged(it, rs) \/ ld THEN [ret |-> TRUE, msg |-> "none"]
    ELSE IF stalled(it, rs) THEN [ret |-> TRUE, msg |-> "stall"]
    ELSE IF it + 1 < maxit THEN [ret |-> FALSE, msg |-> "unset"]
    ELSE IF it = maxit - 1 THEN [ret |-> TRUE, msg |-> "maxiter"]
    ELSE [ret |-> TRUE, msg |-> "none"]

\* the values solve_control leaves: untouched when the Jacobian is singular
solve_control_vals(v, singular, rows, cs, fl, z, it, initf) ==
    IF singular THEN v ELSE increment_conns(v, rows, cs, fl, z, it, initf)

solve_control_cvar(x, singular, cmps, rows, fl, z) ==
    IF singular THEN x ELSE increment_cvar(x, cmps, rows, fl, z)

\* self.vec_z: zeros when inv raises LinAlgError
increment(singular, dim, d) == [i \in 1..dim |-> IF singular THEN 0 ELSE d]

\* the pool after solve_loop returned: solve returns at once when lin_dep,
\* and closes and joins the pool otherwise
pool_after(pl, ld, par) == IF ~ld /\ par THEN "closed" ELSE pl

\* hlp.memorise.del_memory empties the cache
del_memory(mm) == "cleared"

\* an evaluation of a property at (p, h, fluid) stores its result
evaluate(mm) == IF mm \in {"cleared", "refilled"} THEN "refilled" ELSE "filled"

\* the cache after solve_loop returned: solve returns at once when lin_dep;
\* otherwise processing('post') calls del_memory, and then the loop over
\* the connections calls hlp.T_mix_ph and hlp.v_mix_ph
memo_after(mm, ld) == IF ld THEN mm ELSE evaluate(del_memory(mm))

\* m, p, h of the connections of the network stay near their defaults
InWindow(v, rows) ==
    \A c \in Range(rows) :
        /\ v[c].m \in (MDefault - MaxVal)..(MDefault + MaxVal)
        /\ v[c].p \in (PDefault - MaxVal)..(PDefault + MaxVal)
        /\ v[c].h \in (HDefault - MaxVal)..(HDefault + MaxVal)

\* one pass of the loop of solve_loop: r is the norm of the residual
\* vector, singular whether inv raised LinAlgError, dz the increment inv
\* gave otherwise; when solve_loop returns, the rest of solve follows
solve_loop_pass(r, singular, dz) ==
    /\ pc = "Iterating"
    /\ nxt < max_iter
    /\ iter' = nxt
    /\ nxt' = nxt + 1
    /\ n_ctrl' = n_ctrl + 1
    /\ IF merge_fails(comps, conns, parallel, partit)
       THEN /\ pc' = "Raised"
            /\ exc' = Exc("IndexError", "list index out of range", {}, 0, 0)
            /\ UNCHANGED <<res, lin_dep, vec_z, errmsg, pool, vals, val0, cvar,
                           memo>>
       ELSE LET z == IF singular
                     THEN increment(singular, required(comps, conns, fluids), 0)
                     ELSE dz
                rs == append_res(res, r)
                dec == loop_step(nxt, rs, singular, max_iter)
            IN
            /\ lin_dep' = singular
            /\ vec_z' = z
            /\ vals' = solve_control_vals(vals, singular, conns, cset, fluids,
                                          z, nxt, init_file)
            /\ InWindow(vals', conns)
            /\ cvar' = solve_control_cvar(cvar, singular, comps, conns, fluids, z)
            /\ res' = rs
            /\ exc' = NoExc
            /\ IF dec.ret
               THEN /\ pc' = "Terminal"
                    /\ errmsg' = dec.msg
                    /\ pool' = pool_after(pool, singular, parallel)
                    /\ memo' = memo_after(evaluate(memo), singular)
                    /\ val0' = IF singular THEN val0
                               ELSE [c \in ConnIds |->
                                       IF c \in Range(conns) THEN vals'[c]
                                       ELSE val0[c]]
               ELSE /\ pc' = "Iterating"
                    /\ memo' = evaluate(memo)
                    /\ UNCHANGED <<errmsg, pool, val0>>
    /\ UNCHANGED <<netVars, max_iter, parallel, partit, init_file, n_pool>>
    /\ UNCHANGED initVars
    /\ UNCHANGED asmVars

\* a pass whose increment has the same entry d everywhere
iterate(r, singular, d) ==
    /\ singular => d = 0
    /\ solve_loop_pass(r, singular,
                       increment(singular, required(comps, conns, fluids), d))

\* how solve ended: the singularity message and early return of solve, the
\* message solve_loop returned, or none of them
Outcomes == {"Converged", "Diverged", "StallDetected", "MaxIterationsReached"}
outcome ==
    IF pc # "Terminal" THEN "none"
    ELSE IF lin_dep THEN "Diverged"
    ELSE IF errmsg = "stall" THEN "StallDetected"
    ELSE IF errmsg = "maxiter" THEN "MaxIterationsReached"
    ELSE "Converged"

(***************************************************************************)
(* The specification.                                                      *)
(***************************************************************************)
Modes == {"design", "offdesign", "steady"}

\* the max_iter values solve is called with
MaxIters == {1, ConvIter + 2, MaxIterCap}

\* the calls of solve on a network that has not been iterated: a mode that
\* does not exist, offdesign without and with design file, and design;
\* init_only or not; sequential or parallel
FirstArgs ==
    {[mode |-> m.mode, design_file |-> m.design_file, initf |-> FALSE,
      init_only |-> io, maxit |-> ConvIter + 2, par |-> pa, cpu |-> 1] :
        m \in {[mode |-> "steady", design_file |-> FALSE],
                [mode |-> "offdesign", design_file |-> FALSE],
                [mode |-> "offdesign", design_file |-> TRUE],
                [mode |-> "design", design_file |-> FALSE]},
        io \in BOOLEAN, pa \in BOOLEAN}

\* the calls of solve in design mode: every max_iter; every cpu_count();
\* with an init file
DesignArgs ==
    {[mode |-> "design", design_file |-> FALSE, initf |-> FALSE,
      init_only |-> FALSE, maxit |-> mi, par |-> FALSE, cpu |-> 1] :
        mi \in MaxIters}
    \cup
    {[mode |-> "design", design_file |-> FALSE, initf |-> FALSE,
      init_only |-> FALSE, maxit |-> ConvIter + 2, par |-> TRUE, cpu |-> n] :
        n \in 1..MaxCores}
    \cup
    {[mode |-> "design", design_file |-> FALSE, initf |-> TRUE,
      init_only |-> FALSE, maxit |-> ConvIter + 2, par |-> FALSE, cpu |-> 1]}

\* the network is built, then solved, then solved again with the same
\* arguments
SolveArgs ==
    IF max_iter = 0 THEN FirstArgs \cup DesignArgs
    ELSE {a \in DesignArgs : /\ a.maxit = max_iter
                             /\ a.par = parallel
                             /\ a.initf = init_file
                             /\ a.cpu = partit}

Init ==
    /\ conns = <<>>
    /\ checked = FALSE
    /\ comps = <<>>
    /\ \E s \in Setups :
        /\ label = s.label
        /\ busses = s.busses
        /\ fluids = s.fluids
        /\ cset = s.cset
    /\ exc = NoExc
    /\ pc = "Uninitialized"
    /\ max_iter = 0
    /\ parallel = FALSE
    /\ partit = 1
    /\ init_file = FALSE
    /\ iter = 0
    /\ nxt = 0
    /\ res = <<>>
    /\ lin_dep = FALSE
    /\ vec_z = <<>>
    /\ errmsg = "unset"
    /\ pool = "none"
    /\ vals = StartVals(cset)
    /\ val0 = vals
    /\ cvar = CvStart
    /\ n_ctrl = 0
    /\ n_pool = 0
    /\ todo = <<>>
    /\ stack = <<>>
    /\ hooks = 0
    /\ memo = "empty"
    /\ vec_res = <<>>
    /\ mat_deriv = <<>>

Next ==
    \/ \E args \in ArgLists : add_conns(args)
    \/ \E c \in ConnIds : del_conns(c)
    \/ check_network
    \/ \E a \in SolveArgs :
            solve_begin(a.mode, a.design_file, a.initf, a.init_only, a.maxit,
                        a.par, a.cpu)
    \/ \E r \in Residuals, singular \in BOOLEAN, d \in Increments :
            iterate(r, singular, d)

Spec == Init /\ [][Next]_vars

(***************************************************************************)
(* Properties of solve_loop and solve.                                     *)
(***************************************************************************)
\* C1: every call of solve that starts iterating ends in exactly one of
\* Converged, Diverged, StallDetected, MaxIterationsReached: once a call has
\* run solve_control and is no longer iterating, it has one of these outcomes
C1_OneOutcome == (n_ctrl > 0 /\ pc # "Iterating") => outcome \in Outcomes

\* C2, as stated: after every pass with a regular Jacobian the call has ended
\* as Converged exactly when the number of passes performed is above 3 and
\* the residual norm of the pass is below the tolerance
C2_ConvergedIffCountAbove3 ==
    (n_ctrl > 0 /\ pc \in {"Iterating", "Terminal"} /\ ~lin_dep) =>
        (outcome = "Converged" <=> (n_ctrl > ConvIter /\ res[Len(res)] < Tol))

\* C2, amended: after every pass with a regular Jacobian the call has ended
\* as Converged exactly when the zero-based index of the pass is above 3,
\* that is from the fifth pass on, and its residual norm is below the
\* tolerance
C2_ConvergedIffIndexAbove3 ==
    (n_ctrl > 0 /\ pc \in {"Iterating", "Terminal"} /\ ~lin_dep) =>
        (outcome = "Converged" <=> (n_ctrl - 1 > ConvIter /\ res[Len(res)] < Tol))

\* the fourth pass was below the tolerance and did not end the call; the
\* fifth did
C2_Witness ==
    /\ outcome = "Converged"
    /\ n_ctrl = ConvIter + 2
    /\ res[Len(res) - 1] < Tol

\* C3: StallDetected is reported only past iteration 20 and only when the
\* last three residual norms are non-decreasing
C3_StallOnlyNonDecreasing ==
    outcome = "StallDetected" =>
        /\ n_ctrl > StallIter
        /\ res[Len(res) - 2] <= res[Len(res) - 1]
        /\ res[Len(res) - 1] <= res[Len(res)]

C6_Equations ==
    SumSeq([i \in 1..Len(comps) |-> num_equations(comps[i], fluids)])
    + SumSeq([i \in 1..Len(conns) |->
                Cardinality(cset[conns[i]].val_set)
                + Cardinality(cset[conns[i]].ref_set)
                + Cardinality(cset[conns[i]].fluid_set \cap Range(fluids))
                + (IF cset[conns[i]].balance THEN 1 ELSE 0)])
    + Cardinality({i \in 1..Len(busses) : P_val_set(busses[i])})
C6_Unknowns ==
    Len(conns) * (3 + Len(fluids))
    + Cardinality({i \in 1..Len(comps) : num_c_vars_of(comps[i]) = 1})

\* C6: a call reaches its first pass only with as many equations as
\* unknowns; the over- and the under-determined error are raised with more
\* and with fewer equations and report both counts
C6_DofCheck ==
    /\ (pc = "Iterating" \/ n_ctrl > 0) => C6_Equations = C6_Unknowns
    /\ exc.what = "too many parameters" =>
        (C6_Equations > C6_Unknowns /\ exc.n1 = C6_Unknowns /\ exc.n2 = C6_Equations)
    /\ exc.what = "not enough parameters" =>
        (C6_Equations < C6_Unknowns /\ exc.n1 = C6_Unknowns /\ exc.n2 = C6_Equations)

\* the bus with fixed power is the one equation too many
C6_Witness ==
    /\ exc.what = "too many parameters"
    /\ exc.n2 = exc.n1 + 1
    /\ busses # <<>>

\* what solve raises when the mode, the topology, the fluid list or the
\* degrees of freedom are wrong
C7_Errors ==
    {"mode", "no fluids", "duplicate labels", "missing outgoing connections",
     "missing incoming connections", "too many parameters",
     "not enough parameters"}

\* C7: a call of solve that raised one of these errors ran no pass of the
\* loop, applied no increment and created no worker pool
C7_NoIterationNoPool ==
    (pc = "Raised" /\ exc.what \in C7_Errors) =>
        /\ n_ctrl = 0
        /\ res = <<>>
        /\ vec_z = <<>>
        /\ n_pool = 0
        /\ pool = "none"

C7_Witness ==
    /\ pc = "Raised"
    /\ exc.what = "not enough parameters"
    /\ parallel

(***************************************************************************)
(* Properties of the connection table and the topology check.              *)
(***************************************************************************)
\* the components incident to a connection of the table
C8_Incident ==
    {ConnObj[c].s : c \in Range(conns)} \cup {ConnObj[c].t : c \in Range(conns)}
C8_Leaving(cp) == Cardinality({c \in Range(conns) : ConnObj[c].s = cp})
C8_Entering(cp) == Cardinality({c \in Range(conns) : ConnObj[c].t = cp})
C8_Consistent ==
    /\ \A cp \in C8_Incident :
        /\ C8_Leaving(cp) = Len(outlets(cp))
        /\ C8_Entering(cp) = Len(inlets(cp))
    /\ \A a, b \in C8_Incident : a # b => label[a] # label[b]

\* C8: check_network returns and marks the network checked exactly when
\* every incident component has its declared numbers of connections and the
\* labels are distinct; otherwise it raises MyNetworkError naming the
\* component and its missing connections, or the duplicated labels, and the
\* network is not checked
C8_CheckNetwork ==
    [][check_network =>
        IF C8_Consistent THEN exc' = NoExc /\ checked'
        ELSE /\ exc'.type = "MyNetworkError"
             /\ ~checked'
             /\ \/ /\ exc'.what = "duplicate labels"
                   /\ exc'.arg = {label[a] : a \in {b \in C8_Incident :
                        \E d \in C8_Incident : d # b /\ label[d] = label[b]}}
                   /\ exc'.arg # {}
                \/ \E cp \in C8_Incident :
                    /\ exc'.arg = {label[cp]}
                    /\ exc'.n1 # 0
                    /\ \/ /\ exc'.what = "missing outgoing connections"
                          /\ exc'.n1 = Len(outlets(cp)) - C8_Leaving(cp)
                       \/ /\ exc'.what = "missing incoming connections"
                          /\ exc'.n1 = Len(inlets(cp)) - C8_Entering(cp)]_vars

\* check_network found the inlet of B unconnected
C8_Witness ==
    /\ pc = "Uninitialized"
    /\ exc.what = "missing incoming connections"
    /\ exc.arg = {label["B"]}
    /\ ~checked

\* no two rows of the table share a source port or a target port
C9_UniquePorts ==
    \A i, j \in 1..Len(conns) :
        i # j => /\ PortKey(conns[i], "s") # PortKey(conns[j], "s")
                 /\ PortKey(conns[i], "t") # PortKey(conns[j], "t")

\* C9, as stated: after every add_conns call the ports are unique, and a
\* call rejected for a port in use leaves the table as it was before the call
C9_RejectedCallChangesNothing ==
    [][\A args \in ArgLists : add_conns(args) =>
        /\ C9_UniquePorts'
        /\ exc'.type = "MyNetworkError" => conns' = conns]_vars

\* C9, amended: after every add_conns call the ports are unique, and a call
\* rejected for a port in use leaves the table as it was before the rejected
\* argument was processed: the rows before the call, then the arguments that
\* came before the rejected one, and not the rejected one
C9_RejectedArgumentChangesNothing ==
    [][\A args \in ArgLists : add_conns(args) =>
        /\ C9_UniquePorts'
        /\ exc'.type = "MyNetworkError" =>
            \E k \in 1..Len(args) :
                /\ args[k] \notin Range(conns')
                /\ Range(conns') = Range(conns) \cup {args[j] : j \in 1..(k - 1)}
                /\ SubSeq(conns', 1, Len(conns)) = conns]_vars

\* a rejected connection at the source port of the one row of the table
C9_Witness ==
    /\ exc.type = "MyNetworkError"
    /\ exc.what = "source is already in use"
    /\ Len(conns) = 1

\* C10: del_conns(c) takes c out of the table and marks the network
\* unchecked; with c not in the table it raises KeyError and leaves the
\* table alone
C10_DelConns ==
    [][\A c \in ConnIds : del_conns(c) =>
        IF c \in Range(conns)
        THEN c \notin Range(conns') /\ ~checked' /\ exc' = NoExc
        ELSE exc'.type = "KeyError" /\ conns' = conns]_vars

(***************************************************************************)
(* Properties of the increment step of solve_control.                      *)
(***************************************************************************)
\* C11: after a solve that ended Converged, every property the caller fixed
\* on a connection of the network (m, p, h, or the fraction of a fluid) has
\* exactly the value the caller set before the solve
C11_FixedValuesKept ==
    outcome = "Converged" =>
        \A c \in Range(conns) :
            /\ "m" \in cset[c].val_set => vals[c].m = StartVals(cset)[c].m
            /\ "p" \in cset[c].val_set => vals[c].p = StartVals(cset)[c].p
            /\ "h" \in cset[c].val_set => vals[c].h = StartVals(cset)[c].h
            /\ \A f \in Range(fluids) \cap cset[c].fluid_set :
                    vals[c].fluid[f] = UserFrac[f]

\* a pass of the loop of solve_loop whose Jacobian was inverted, so that
\* solve_control added the increment
C13_IncrementStep ==
    /\ pc = "Iterating"
    /\ n_ctrl' = n_ctrl + 1
    /\ pc' # "Raised"
    /\ ~lin_dep'

\* C13: after the increment step of every non-singular iteration, every
\* fraction of every connection lies in [eps, 1 - eps]
C13_FractionsInEpsInterval ==
    [][C13_IncrementStep =>
        \A c \in Range(conns), f \in Range(fluids) :
            /\ vals'[c].fluid[f] >= Err
            /\ vals'[c].fluid[f] <= FracOne - Err]_vars

\* C13, as the code has it: after the increment step of every non-singular
\* iteration, every fraction of every connection is 0, or 1, or lies in
\* [eps, 1 - eps]; none lies strictly between 0 and eps or strictly between
\* 1 - eps and 1
C13_FractionsSnapped ==
    [][C13_IncrementStep =>
        \A c \in Range(conns), f \in Range(fluids) :
            \/ vals'[c].fluid[f] = 0
            \/ vals'[c].fluid[f] = FracOne
            \/ /\ vals'[c].fluid[f] >= Err
               /\ vals'[c].fluid[f] <= FracOne - Err]_vars

\* an increment was added, and it left one connection with a fraction set
\* to 0 and a fraction set to 1, and another with a fraction inside
\* [eps, 1 - eps]
C13_Witness ==
    /\ pc = "Iterating"
    /\ n_ctrl > 0
    /\ ~lin_dep
    /\ \E c \in Range(conns) :
            /\ vals[c].fluid["f1"] = FracOne
            /\ vals[c].fluid["f2"] = 0
            /\ StartVals(cset)[c].fluid["f2"] > 0
    /\ \E c \in Range(conns), f \in Range(fluids) :
            /\ vals[c].fluid[f] >= Err
            /\ vals[c].fluid[f] <= FracOne - Err

(***************************************************************************)
(* The damped pressure update of solve_control, on its own: one free       *)
(* pressure, updated again and again with arbitrary increments.  The       *)
(* pressures and increments are multiples of 2 ^ MaxSteps, so that halving *)
(* is exact for MaxSteps updates.                                          *)
(***************************************************************************)
MaxSteps == 3
MaxP == 5
MaxDz == 12
PUnit == 2 ^ MaxSteps
Pressures == {PUnit * j : j \in 1..MaxP}
PressureIncrements == {PUnit * k : k \in (0 - MaxDz)..MaxDz}

\* the state of a network of c1 and c2 inside solve_loop, the connections
\* holding the values v
InSolveLoop(cs, fl, v, maxit) ==
    /\ conns = <<"c1", "c2">>
    /\ checked = TRUE
    /\ comps = unique(ravel(conns))
    /\ label = Distinct
    /\ busses = <<>>
    /\ fluids = fl
    /\ cset = cs
    /\ exc = NoExc
    /\ pc = "Iterating"
    /\ max_iter = maxit
    /\ parallel = FALSE
    /\ partit = 1
    /\ init_file = FALSE
    /\ iter = 0
    /\ nxt = 0
    /\ res = <<>>
    /\ lin_dep = FALSE
    /\ vec_z = <<>>
    /\ errmsg = "unset"
    /\ pool = "open"
    /\ vals = v
    /\ val0 = v
    /\ cvar = CvStart
    /\ n_ctrl = 0
    /\ n_pool = 1
    /\ todo = <<>>
    /\ stack = <<>>
    /\ hooks = 0
    /\ memo = "empty"
    /\ vec_res = <<>>
    /\ mat_deriv = <<>>

\* the pressure lines of the increment loop, for the free pressure of c2
damp_pressure(dz) ==
    /\ nxt < MaxSteps
    /\ nxt' = nxt + 1
    /\ vec_z' = <<dz>>
    /\ vals' = [vals EXCEPT !["c2"].p = p_update(@, dz)]
    /\ UNCHANGED <<netVars, exc, pc, max_iter, parallel, partit, init_file,
                   iter, res, lin_dep, errmsg, pool, val0, cvar, n_ctrl,
                   n_pool, memo>>
    /\ UNCHANGED initVars
    /\ UNCHANGED asmVars

InitPressure ==
    \E p0 \in Pressures :
        InSolveLoop(Determined, TwoFluids,
                    [StartVals(Determined) EXCEPT !["c2"].p = p0], MaxSteps)

NextPressure == \E dz \in PressureIncrements : damp_pressure(dz)

SpecPressure == InitPressure /\ [][NextPressure]_vars

\* C12: a free pressure p > 0 is, after the damped update with any
\* increment, at least p / 2 and so strictly positive; over any sequence of
\* updates a pressure that starts positive stays positive
C12_DampedPressurePositive ==
    [][vals["c2"].p > 0 =>
          /\ 2 * vals'["c2"].p >= vals["c2"].p
          /\ vals'["c2"].p > 0]_vars

\* an increment below -2 p was applied to a positive pressure p, which left
\* p / 2: the increment is below -4 times the pressure it left
C12_Witness ==
    /\ nxt > 1
    /\ vals["c2"].p > 0
    /\ vec_z[1] < 0 - 4 * vals["c2"].p

(***************************************************************************)
(* The fluid balance of a connection through the iterations of solve_loop: *)
(* a network of three fluids whose connection c2 has free fractions and    *)
(* the balance flag.  The row of the balance in the Jacobian is -1 for     *)
(* every fluid and its residual is 1 minus the sum of the fractions, so    *)
(* the increments of the fractions of c2 add up to that residual; the      *)
(* other rows belong to the components and leave the increments free.      *)
(***************************************************************************)
ThreeFluids == <<"f1", "f2", "f3">>

\* c1 with every fraction fixed, c2 with the balance
Balanced ==
    [c1 |-> [PFull EXCEPT !.fluid_set = AllFluids], c2 |-> PTemp,
     c3 |-> PTemp]

\* hlp.err ** (1 / 2) in halves of hlp.err, hlp.err being 1 / 4 of the
\* fraction 1
TolFrac == 4

MaxBalIter == 5
MaxBalDz == 5

Abs(x) == IF x < 0 THEN 0 - x ELSE x

\* the sum of the fractions of the network's fluids
fluid_sum(fv, fl) == SumSeq([i \in 1..Len(fl) |-> fv[fl[i]]])

\* res = 1; res -= c.fluid.val[f] for every fluid
balance_res(v, fl) == FracOne - fluid_sum(v.fluid, fl)

\* the fractions c2 starts with: the ones init_fluids copied from c1
BalStarts == {[f \in AllFluids |-> UserFrac[f]]}

\* the increments of a fraction that are tried
BalIncrements == {0 - MaxBalDz, 0, MaxBalDz}

\* the norms a residual vector can have whose balance entry is b: in
\* halves of hlp.err, no smaller than the entry
balance_norms(b) == {Abs(b), Abs(b) + 1, Abs(b) + TolFrac}

\* an increment that moves the fractions of the connection in row loc by
\* a[f] and nothing else
fluid_increment(cmps, rows, fl, loc, a) ==
    [i \in 1..required(cmps, rows, fl) |->
        IF \E j \in 1..Len(fl) : i = loc * num_vars(fl) + 3 + j
        THEN a[fl[i - loc * num_vars(fl) - 3]]
        ELSE 0]

\* a pass of the loop with a Jacobian that was inverted: the norm rf of
\* the residual vector (counted in units of the tolerance when appended)
\* and the increments of the fractions of c2 (a1, a2 and what the balance
\* row leaves for the third) agree with the balance row
newton_pass(rf, a1, a2) ==
    LET b == balance_res(vals["c2"], fluids)
        a == [f1 |-> a1, f2 |-> a2, f3 |-> b - a1 - a2]
    IN
    /\ rf <= 3 * TolFrac - 1
    /\ fluid_sum(a, fluids) = b
    /\ rf = 0 => \A f \in AllFluids : a[f] = 0
    /\ solve_loop_pass(rf \div TolFrac, FALSE,
                       fluid_increment(comps, conns, fluids,
                                       get_loc(conns, "c2") - 1, a))

InitBalance ==
    \E fv \in BalStarts :
        InSolveLoop(Balanced, ThreeFluids,
                    [StartVals(Balanced) EXCEPT !["c2"].fluid = fv],
                    MaxBalIter)

NextBalance ==
    \E a1 \in BalIncrements, a2 \in BalIncrements :
        \E rf \in balance_norms(balance_res(vals["c2"], fluids)) :
            newton_pass(rf, a1, a2)

SpecBalance == InitBalance /\ [][NextBalance]_vars

\* C14: whenever solve ended Converged, the fractions every connection
\* with the balance flag is left with add up to 1 within the tolerance
\* (the tolerance of the convergence test, the larger of the two)
C14_BalancedSumsToOne ==
    outcome = "Converged" =>
        \A c \in Range(conns) :
            cset[c].balance =>
                Abs(FracOne - fluid_sum(vals[c].fluid, fluids)) <= TolFrac

(***************************************************************************)
(* init_fluids call by call: the first loop over the connections, then the *)
(* calls of init_target and init_source with their recursion kept on a     *)
(* stack, then the initialise_fluids hooks of the components.  The         *)
(* networks passed check_network; none holds a combustion chamber.         *)
(***************************************************************************)
\* the recursion limit of the interpreter
MaxDepth == 6
\* the most connections of a network with a fixed fraction
MaxFixed == 2

OneFluid == <<"f1">>

\* the connection table of every network
Nets ==
    [chain |-> <<"n1", "n2", "n3">>,
     split |-> <<"s1", "s2", "s3", "s4">>,
     hx |-> <<"h1", "h2", "h3", "h4">>,
     ring |-> <<"r1", "r2">>,
     drum |-> <<"d1", "d2", "d3", "d4", "d5">>,
     drums |-> <<"e1", "e2", "e3", "e4", "e5", "e6", "e7">>,
     merge |-> <<"m1", "m2", "m3">>,
     cogen |-> <<"g1", "g2", "g3", "g4", "g5", "g6", "g7">>]

\* the fluids the caller fixed on a connection: none, one, or both
FixChoices == {{}, {"f1"}, {"f1", "f2"}}

\* the ways to fix fractions on at most MaxFixed connections
Fixings(rows) ==
    {fx \in [Range(rows) -> FixChoices] :
        Cardinality({c \in Range(rows) : fx[c] # {}}) <= MaxFixed}

NetParams(fx) ==
    [c \in DOMAIN fx |->
        [val_set |-> {}, ref_set |-> {}, fluid_set |-> fx[c],
         balance |-> FALSE]]

\* the fractions the caller fixes on the connection in row i: different
\* in every row
UserFracAt(i) == [f1 |-> i, f2 |-> FracOne - i, f3 |-> 0]

NetStartVals(rows, fx) ==
    [c \in Range(rows) |->
        [m |-> MDefault, p |-> PDefault, h |-> HDefault,
         fluid |-> [f \in AllFluids |->
                      IF f \in fx[c] THEN UserFracAt(get_loc(rows, c))[f]
                      ELSE 0]]]

\* t_id.replace('in', 'out') and s_id.replace('out', 'in')
to_out(id) ==
    [in1 |-> "out1", in2 |-> "out2", in3 |-> "out3", in4 |-> "out4"][id]
to_in(id) == [out1 |-> "in1", out2 |-> "in2", out3 |-> "in3"][id]

\* the row at the first outlet only
comp_o_first(rows, cp) ==
    [k \in 1..(IF outlets(cp) = <<>> THEN 0 ELSE 1) |->
        port_rows(rows, "s", cp, outlets(cp)[k])[1]]

\* self.comps.loc[cp].o and .i: the rows at the outlets / inlets of cp,
\* sorted by port id
comp_o(rows, cp) ==
    [k \in 1..Len(outlets(cp)) |-> port_rows(rows, "s", cp, outlets(cp)[k])[1]]
comp_i(rows, cp) ==
    [k \in 1..Len(inlets(cp)) |-> port_rows(rows, "t", cp, inlets(cp)[k])[1]]

\* the first branch without its test of the numbers of inlets and outlets
passes_through_by_class(cp) ==
    kind(cp) = "heat_exchanger" \/ kind(cp) = "subsys_interface"

\* the first branch without its tests of the class
passes_through_one_to_one(cp) == Len(inlets(cp)) = 1 /\ Len(outlets(cp)) = 1

\* the condition of the first branch of init_target / init_source
passes_through(cp) ==
    \/ Len(inlets(cp)) = 1 /\ Len(outlets(cp)) = 1
    \/ kind(cp) = "heat_exchanger"
    \/ kind(cp) = "subsys_interface"

\* ls[:2]
FirstTwo(ls) == SubSeq(ls, 1, IF Len(ls) < 2 THEN Len(ls) ELSE 2)

\* a plausible slip: init_target with the merge branch of init_source
target_visits_through_merge(rows, c, start) ==
    LET cp == ConnObj[c].t
        each(ls, st) == [k \in 1..Len(ls) |-> [d |-> ls[k], start |-> st]]
    IN  (IF passes_through(cp)
         THEN each(port_rows(rows, "s", cp, to_out(ConnObj[c].t_id)), start)
         ELSE <<>>)
        \o (IF kind(cp) = "splitter" THEN each(comp_o(rows, cp), start)
            ELSE <<>>)
        \o (IF kind(cp) = "merge" THEN each(comp_o(rows, cp), start)
            ELSE <<>>)
        \o (IF kind(cp) = "cogeneration_unit"
            THEN each(FirstTwo(comp_o(rows, cp)), start) ELSE <<>>)
        \o (IF kind(cp) = "drum" /\ cp # start
            THEN each(comp_o(rows, cp), cp) ELSE <<>>)

\* the connections one call init_target(c, start) copies to and calls
\* itself with, in order, each with the start it hands on
target_visits(rows, c, start) ==
    LET cp == ConnObj[c].t
        each(ls, st) == [k \in 1..Len(ls) |-> [d |-> ls[k], start |-> st]]
    IN  (IF passes_through(cp)
         THEN each(port_rows(rows, "s", cp, to_out(ConnObj[c].t_id)), start)
         ELSE <<>>)
        \o (IF kind(cp) = "splitter" THEN each(comp_o(rows, cp), start)
            ELSE <<>>)
        \o (IF kind(cp) = "cogeneration_unit"
            THEN each(FirstTwo(comp_o(rows, cp)), start) ELSE <<>>)
        \o (IF kind(cp) = "drum" /\ cp # start
            THEN each(comp_o(rows, cp), cp) ELSE <<>>)

\* the same for init_source(c, start)
source_visits(rows, c, start) ==
    LET cp == ConnObj[c].s
        each(ls, st) == [k \in 1..Len(ls) |-> [d |-> ls[k], start |-> st]]
    IN  (IF passes_through(cp)
         THEN each(port_rows(rows, "t", cp, to_in(ConnObj[c].s_id)), start)
         ELSE <<>>)
        \o (IF kind(cp) = "splitter" THEN each(comp_i(rows, cp), start)
            ELSE <<>>)
        \o (IF kind(cp) = "merge" THEN each(comp_i(rows, cp), start)
            ELSE <<>>)
        \o (IF kind(cp) = "cogeneration_unit"
            THEN each(FirstTwo(comp_i(rows, cp)), start) ELSE <<>>)
        \o (IF kind(cp) = "drum" /\ cp # start
            THEN each(comp_i(rows, cp), cp) ELSE <<>>)

\* a call in progress: k of its visits are done
Frame(fn, c, start) == [fn |-> fn, c |-> c, start |-> start, k |-> 0]

visits(rows, fr) ==
    IF fr.fn = "target" THEN target_visits(rows, fr.c, fr.start)
    ELSE source_visits(rows, fr.c, fr.start)

\* the calls the loop over self.conns.index makes: init_target(c, c.t) and
\* init_source(c, c.s) for every row with a fixed fraction
RECURSIVE top_calls(_, _, _)
top_calls(rows, cs, fl) ==
    IF rows = <<>> THEN <<>>
    ELSE LET c == Head(rows) IN
         (IF \E f \in Range(fl) : fluid_val_set(cs, fl, c, f)
          THEN <<Frame("target", c, ConnObj[c].t),
                 Frame("source", c, ConnObj[c].s)>>
          ELSE <<>>) \o top_calls(Tail(rows), cs, fl)

\* init_fluids returns after its first loop
returns_early_never(fl) == FALSE

returns_early(fl) == Len(fl) = 1

\* the first loop of init_fluids, and its return for a single fluid
init_fluids_begin ==
    /\ pc = "Checked"
    /\ vals' = [c \in DOMAIN vals |->
                  [vals[c] EXCEPT !.fluid = init_fluid_vector(vals, fluids, c)]]
    /\ val0' = vals'
    /\ IF returns_early(fluids)
       THEN pc' = "Initialised" /\ todo' = <<>>
       ELSE pc' = "Propagating" /\ todo' = top_calls(conns, cset, fluids)
    /\ UNCHANGED <<netVars, exc, max_iter, parallel, partit, init_file, iter,
                   nxt, res, lin_dep, vec_z, errmsg, pool, cvar, n_ctrl,
                   n_pool, stack, hooks, memo>>
    /\ UNCHANGED asmVars

\* the loop over self.conns.index makes its next call
next_call ==
    /\ pc = "Propagating"
    /\ stack = <<>>
    /\ todo # <<>>
    /\ stack' = <<Head(todo)>>
    /\ todo' = Tail(todo)
    /\ UNCHANGED <<netVars, solveVars, exc, hooks>>
    /\ UNCHANGED asmVars

\* the innermost call copies to its next connection and calls itself with
\* it; the interpreter raises RecursionError at its recursion limit
call_visit ==
    /\ pc = "Propagating"
    /\ stack # <<>>
    /\ LET n == Len(stack)
           fr == stack[n]
           vs == visits(conns, fr)
       IN  /\ fr.k < Len(vs)
           /\ vals' = copy_fluid(vals, cset, fluids, fr.c, vs[fr.k + 1].d)
           /\ IF n < MaxDepth
              THEN /\ stack' = Append([stack EXCEPT ![n].k = fr.k + 1],
                                      Frame(fr.fn, vs[fr.k + 1].d,
                                            vs[fr.k + 1].start))
                   /\ UNCHANGED <<pc, exc>>
              ELSE /\ stack' = <<>>
                   /\ pc' = "Raised"
                   /\ exc' = Exc("RecursionError",
                                 "maximum recursion depth exceeded", {}, 0, 0)
    /\ UNCHANGED <<netVars, max_iter, parallel, partit, init_file, iter, nxt,
                   res, lin_dep, vec_z, errmsg, pool, val0, cvar, n_ctrl,
                   n_pool, todo, hooks, memo>>
    /\ UNCHANGED asmVars

\* the innermost call has nothing left to visit and returns
call_return ==
    /\ pc = "Propagating"
    /\ stack # <<>>
    /\ stack[Len(stack)].k = Len(visits(conns, stack[Len(stack)]))
    /\ stack' = SubSeq(stack, 1, Len(stack) - 1)
    /\ UNCHANGED <<netVars, solveVars, exc, todo, hooks>>
    /\ UNCHANGED asmVars

\* the last loop: initialise_fluids of the source and of the target of
\* every connection (the hooks of these component classes change nothing)
init_fluids_end ==
    /\ pc = "Propagating"
    /\ stack = <<>>
    /\ todo = <<>>
    /\ hooks' = 2 * Len(conns)
    /\ pc' = "Initialised"
    /\ UNCHANGED <<netVars, exc, max_iter, parallel, partit, init_file, iter,
                   nxt, res, lin_dep, vec_z, errmsg, pool, vals, val0, cvar,
                   n_ctrl, n_pool, todo, stack, memo>>
    /\ UNCHANGED asmVars

\* the fixed fractions of the merge network: both fluids at m1 and m3
MergeFixed == [c \in Range(Nets.merge) |->
                 IF c = "m2" THEN {} ELSE {"f1", "f2"}]

\* what a converged solve of that network leaves (lines 1133-1146 of solve):
\* equal mass flows at the two inlets, and at m2 the fractions that mix
\* with those of m1 to those of m3; val0 holds the results
MergeResult ==
    [c \in Range(Nets.merge) |->
        [m |-> IF c = "m3" THEN 2 * MDefault ELSE MDefault,
         p |-> PDefault, h |-> HDefault,
         fluid |-> [f \in AllFluids |->
                      IF c = "m2"
                      THEN 2 * UserFracAt(3)[f] - UserFracAt(1)[f]
                      ELSE UserFracAt(get_loc(Nets.merge, c))[f]]]]

\* solve is called again on the converged merge network, with the same
\* arguments: initialise has reached init_fluids
InitResolve ==
    /\ conns = Nets.merge
    /\ checked = TRUE
    /\ comps = unique(ravel(conns))
    /\ label = Distinct
    /\ busses = <<>>
    /\ fluids = TwoFluids
    /\ cset = NetParams(MergeFixed)
    /\ exc = NoExc
    /\ pc = "Checked"
    /\ max_iter = ConvIter + 2
    /\ parallel = FALSE
    /\ partit = 1
    /\ init_file = FALSE
    /\ iter = ConvIter + 1
    /\ nxt = ConvIter + 2
    /\ res = <<0>>
    /\ lin_dep = FALSE
    /\ vec_z = <<>>
    /\ errmsg = "none"
    /\ pool = "none"
    /\ vals = MergeResult
    /\ val0 = vals
    /\ cvar = CvStart
    /\ n_ctrl = ConvIter + 2
    /\ n_pool = 0
    /\ todo = <<>>
    /\ stack = <<>>
    /\ hooks = 0
    /\ memo = "refilled"
    /\ vec_res = <<>>
    /\ mat_deriv = <<>>

InitFirst ==
    \E n \in DOMAIN Nets, fl \in {TwoFluids, OneFluid} :
        \E fx \in Fixings(Nets[n]) :
            /\ conns = Nets[n]
            /\ checked = TRUE
            /\ comps = unique(ravel(conns))
            /\ label = Distinct
            /\ busses = <<>>
            /\ fluids = fl
            /\ cset = NetParams(fx)
            /\ exc = NoExc
            /\ pc = "Checked"
            /\ max_iter = 0
            /\ parallel = FALSE
            /\ partit = 1
            /\ init_file = FALSE
            /\ iter = 0
            /\ nxt = 0
            /\ res = <<>>
            /\ lin_dep = FALSE
            /\ vec_z = <<>>
            /\ errmsg = "unset"
            /\ pool = "none"
            /\ vals = NetStartVals(conns, fx)
            /\ val0 = vals
            /\ cvar = CvStart
            /\ n_ctrl = 0
            /\ n_pool = 0
            /\ todo = <<>>
            /\ stack = <<>>
            /\ hooks = 0
            /\ memo = "empty"
            /\ vec_res = <<>>
            /\ mat_deriv = <<>>

InitFluids == InitFirst \/ InitResolve

NextFluids ==
    \/ init_fluids_begin
    \/ next_call
    \/ call_visit
    \/ call_return
    \/ init_fluids_end

SpecFluids == InitFluids /\ [][NextFluids]_vars

(***************************************************************************)
(* Properties of init_fluids, init_target and init_source.                 *)
(***************************************************************************)
\* C15: the propagation of init_target and init_source terminates on every
\* network that passed check_network, loops included: the recursion never
\* grows without bound, so the interpreter never raises RecursionError
C15_PropagationTerminates == exc.type # "RecursionError"

\* init_fluids returned, in a network of more than one fluid
Propagated == pc = "Initialised" /\ Len(fluids) > 1

\* c is the only connection of the network with a fixed fraction
OnlyFixed(c) ==
    /\ c \in Range(conns)
    /\ cset[c].fluid_set # {}
    /\ \A d \in Range(conns) \ {c} : cset[d].fluid_set = {}

\* the fractions the caller gave the connection c (0 where none was given)
GivenFrac(c, f) ==
    IF f \in cset[c].fluid_set THEN UserFracAt(get_loc(conns, c))[f] ELSE 0

\* C16: in the chain source -> Pa -> Pb -> sink of a network with several
\* fluids, with fractions fixed on the connection leaving the source only,
\* every connection has after init_fluids, for every fluid of the network,
\* the fraction of the connection leaving the source
C16_ChainHoldsSourceFractions ==
    (Propagated /\ conns = Nets.chain /\ OnlyFixed("n1")) =>
        \A c \in Range(conns), f \in Range(fluids) :
            vals[c].fluid[f] = GivenFrac("n1", f)

C16_Witness ==
    /\ Propagated
    /\ conns = Nets.chain
    /\ OnlyFixed("n1")
    /\ cset["n1"].fluid_set = {"f1", "f2"}
    /\ vals["n3"].fluid["f1"] = 1
    /\ vals["n3"].fluid["f2"] = FracOne - 1

\* the connections leaving / entering the component cp
C17_Outlets(cp) == {o \in Range(conns) : ConnObj[o].s = cp}
C17_Inlets(cp) == {i \in Range(conns) : ConnObj[i].t = cp}

\* C17: for a splitter whose inlet connection has every fraction fixed
\* and whose outlet connections have none fixed, all outlet connections
\* hold after init_fluids the fractions of the inlet connection
C17_SplitterOutletsHoldInlet ==
    Propagated =>
        \A cp \in Range(comps) : \A i \in C17_Inlets(cp) :
            (/\ kind(cp) = "splitter"
             /\ Range(fluids) \subseteq cset[i].fluid_set
             /\ \A o \in C17_Outlets(cp) : cset[o].fluid_set = {})
            => \A o \in C17_Outlets(cp), f \in Range(fluids) :
                    vals[o].fluid[f] = vals[i].fluid[f]

\* C17, as the code has it: the same when the inlet connection of the
\* splitter is the only connection of the network with a fixed fraction
C17_SplitterOutletsHoldOnlyFixedInlet ==
    Propagated =>
        \A cp \in Range(comps) : \A i \in C17_Inlets(cp) :
            (/\ kind(cp) = "splitter"
             /\ Range(fluids) \subseteq cset[i].fluid_set
             /\ OnlyFixed(i))
            => \A o \in C17_Outlets(cp), f \in Range(fluids) :
                    vals[o].fluid[f] = vals[i].fluid[f]

C17_Witness ==
    /\ Propagated
    /\ conns = Nets.split
    /\ OnlyFixed("s1")
    /\ cset["s1"].fluid_set = {"f1", "f2"}
    /\ vals["s2"].fluid = vals["s1"].fluid
    /\ vals["s3"].fluid = vals["s1"].fluid
    /\ vals["s3"].fluid["f2"] = FracOne - 1

\* C18: in a network of several fluids no step of the propagation changes
\* a fraction that is fixed on its connection: at every point of
\* init_fluids every fixed fraction has the value the caller gave it
C18_FixedFractionsKept ==
    Len(fluids) > 1 =>
        \A c \in Range(conns) :
            \A f \in Range(fluids) \cap cset[c].fluid_set :
                vals[c].fluid[f] = UserFracAt(get_loc(conns, c))[f]

\* backwards through the merge: m1, with f1 fixed, took f2 from m3 and
\* kept its f1
C18_Witness ==
    /\ Propagated
    /\ conns = Nets.merge
    /\ cset["m1"].fluid_set = {"f1"}
    /\ cset["m3"].fluid_set = {"f1", "f2"}
    /\ vals["m1"].fluid["f2"] = vals["m3"].fluid["f2"]
    /\ vals["m1"].fluid["f1"] = 1
    /\ vals["m3"].fluid["f1"] = 3

\* the connections at the far end of the heat exchanger the connection c
\* enters (forward) or leaves (backward)
C19_FarEnd(c, dir) ==
    IF dir = "target" THEN C17_Outlets(ConnObj[c].t)
    ELSE C17_Inlets(ConnObj[c].s)

C19_AtHeatExchanger(c, dir) ==
    IF dir = "target" THEN kind(ConnObj[c].t) = "heat_exchanger"
    ELSE kind(ConnObj[c].s) = "heat_exchanger"

\* the connection at the same side of the heat exchanger as c, at its far
\* end
C19_SameSide(c, dir, d) ==
    IF dir = "target" THEN ConnObj[d].s_id = to_out(ConnObj[c].t_id)
    ELSE ConnObj[d].t_id = to_in(ConnObj[c].s_id)

\* C19: the propagation does not go through a heat exchanger: fractions
\* that arrive at an inlet (forward) or an outlet (backward) of a heat
\* exchanger are copied to no connection at its other end
C19_HeatExchangerNotTraversed ==
    Propagated =>
        \A c \in Range(conns), dir \in {"target", "source"} :
            (OnlyFixed(c) /\ C19_AtHeatExchanger(c, dir)) =>
                \A d \in C19_FarEnd(c, dir), f \in Range(fluids) :
                    vals[d].fluid[f] = 0

\* C19, as the code has it: the propagation goes through a heat exchanger
\* along each of its sides and never across: fractions that arrive at inK
\* (forward) are copied to the connection at outK, fractions that arrive at
\* outK (backward) to the connection at inK, and the connections of the
\* other side are not written
C19_HeatExchangerAlongSides ==
    Propagated =>
        \A c \in Range(conns), dir \in {"target", "source"} :
            (OnlyFixed(c) /\ C19_AtHeatExchanger(c, dir)) =>
                /\ \A d \in C19_FarEnd(c, dir), f \in Range(fluids) :
                        vals[d].fluid[f] = IF C19_SameSide(c, dir, d)
                                           THEN vals[c].fluid[f] ELSE 0
                /\ \A d \in Range(conns) \ (C19_FarEnd(c, dir) \cup {c}),
                      f \in Range(fluids) : vals[d].fluid[f] = 0

C19_Witness ==
    /\ Propagated
    /\ conns = Nets.hx
    /\ OnlyFixed("h3")
    /\ vals["h4"].fluid["f1"] = 3
    /\ vals["h2"].fluid["f1"] = 0
    /\ vals["h1"].fluid["f1"] = 0

\* C20: with exactly one fluid in the network, init_fluids makes no call of
\* init_target or init_source and none of a component's initialise_fluids,
\* and every connection holds the fraction 1 for the fluid when it returns
C20_SingleFluid ==
    [][Len(fluids) = 1 =>
          /\ stack' = <<>>
          /\ todo' = <<>>
          /\ hooks' = 0
          /\ pc' = "Initialised" =>
                \A c \in Range(conns) : vals'[c].fluid[fluids[1]] = FracOne]_vars

\* init_fluids returned in a network of one fluid on whose connection the
\* caller had fixed another fraction than 1
C20_Witness ==
    /\ pc = "Initialised"
    /\ Len(fluids) = 1
    /\ hooks = 0
    /\ \E c \in Range(conns) :
            /\ "f1" \in cset[c].fluid_set
            /\ UserFracAt(get_loc(conns, c))["f1"] # FracOne
            /\ vals[c].fluid["f1"] = FracOne



(***************************************************************************)
(* The second solve of a converged network.                                *)
(***************************************************************************)
\* a solve of this network has run before: solve left its iteration count
C21_SolvedBefore == max_iter > 0 /\ n_ctrl > 0

\* C21: solving a converged network again with the same constraints and no
\* init file starts from the converged state of the first solve: when
\* init_fluids of the second solve is through, every connection holds the
\* fractions the first solve left in its starting values, so that the first
\* residual is below the tolerance and the solve ends Converged
C21_ResolveStartsConverged ==
    (Propagated /\ C21_SolvedBefore /\ ~init_file) =>
        \A c \in Range(conns), f \in Range(fluids) :
            vals[c].fluid[f] = val0[c].fluid[f]

(***************************************************************************)
(* The worker pool and the memo cache of a call of solve.                  *)
(***************************************************************************)
\* C22: in a call of solve with parallel evaluation the pool is created
\* exactly once and is closed and joined before solve returns, whichever
\* way the call ends: Converged, Diverged, StallDetected or
\* MaxIterationsReached
C22_PoolTornDown ==
    (parallel /\ outcome \in Outcomes) => (n_pool = 1 /\ pool = "closed")

\* C23: the memo cache of the property backend is cleared at the end of a
\* solve and nothing fills it after the clearing, so the cache is empty
\* when solve returns with a terminal outcome
C23_CacheEmptyAtReturn ==
    outcome \in Outcomes => memo \in {"empty", "cleared"}

(***************************************************************************)
(* The batches of the parallel evaluation and the assembly of the          *)
(* residual vector and of the Jacobian.                                    *)
(***************************************************************************)
\* np.arange(n) // (n / partit) at position i, counted from 0
group_key(i, n, P) == (i * P) \div n

\* the groups of ls.groupby(np.arange(n) // (n / partit)), in the order of
\* their keys: comps_split, conns_split
groupby(ls, P) ==
    LET n == Len(ls)
        keys == {group_key(i, n, P) : i \in 0..(n - 1)}
        key(j) == CHOOSE k \in keys : Cardinality({x \in keys : x < k}) = j - 1
        at(k) == SelectSeq([i \in 1..n |-> i],
                           LAMBDA i : group_key(i - 1, n, P) = k)
    IN  [j \in 1..Cardinality(keys) |->
            [i \in 1..Len(at(key(j))) |-> ls[at(key(j))[i]]]]

\* the batches of a sequential solve: [self.comps], [self.conns]
split(ls, par, P) == IF par THEN groupby(ls, P) ELSE <<ls>>

\* the batches one after the other
RECURSIVE concat(_)
concat(ss) == IF ss = <<>> THEN <<>> ELSE Head(ss) \o concat(Tail(ss))

\* C25: the partitioning yields exactly as many batches of components and
\* of connections as there are workers, whatever the numbers of components,
\* connections and workers; the batches are disjoint, cover every row and
\* keep the order, and the merge loop finds a batch for every worker
C25_BatchPerWorker ==
    (parallel /\ n_pool = 1) =>
        /\ Len(split(comps, parallel, partit)) = partit
        /\ Len(split(conns, parallel, partit)) = partit
        /\ concat(split(comps, parallel, partit)) = comps
        /\ concat(split(conns, parallel, partit)) = conns
        /\ exc.type # "IndexError"

\* an equation of the system: of a component (its k-th), of a property or
\* a reference of a connection, of a fixed fraction, of the fluid balance,
\* of a bus
Eq(sec, of, var, k) == [sec |-> sec, of |-> of, var |-> var, k |-> k]
NoEq == Eq("none", "", "", 0)

\* the order of the lists of solve_conn_eq and solve_conn_deriv, and the
\* dict var of solve_connections
PropOrder == <<"m", "p", "h", "T", "x", "v", "m", "p", "h", "T">>
FirstRef == 7

\* a plausible slip: no derivative for T, x and v
solve_prop_deriv_mph(cs, c, i) ==
    IF i < FirstRef THEN PropOrder[i] \in cs[c].val_set \cap {"m", "p", "h"}
    ELSE PropOrder[i] \in cs[c].ref_set

\* solve_prop_eq / solve_prop_ref_eq at position i of the list: whether
\* it returns a residual and not None
solve_prop_eq(cs, c, i) ==
    IF i < FirstRef THEN PropOrder[i] \in cs[c].val_set
    ELSE PropOrder[i] \in cs[c].ref_set

\* solve_prop_deriv / solve_prop_ref_deriv: whether it returns a derivative
solve_prop_deriv(cs, c, i) ==
    IF i < FirstRef THEN PropOrder[i] \in cs[c].val_set
    ELSE PropOrder[i] \in cs[c].ref_set

\* the equation at position i of the lists of connection c
prop_eq(c, i) == Eq(IF i < FirstRef THEN "prop" ELSE "ref", c, PropOrder[i], 0)

\* the connection the caller referred to: the first of the network
ref_obj(rows, c) == rows[1]

\* b.comps.index: the members of every bus are the components of the
\* network that are neither source nor sink
bus_comps(b, cmps) ==
    SelectSeq(cmps, LAMBDA cp : kind(cp) \notin {"source", "sink"})

\* np.zeros((num_cols + num_c_vars, num_cols + num_c_vars)): one column
\* block per connection, one column per free variable
zeros(cmps, rows, fl) ==
    [r \in 1..required(cmps, rows, fl) |->
        [eq |-> NoEq,
         cols |-> [col \in 1..(Len(rows) + num_c_vars(cmps)) |-> {}]]]

\* mat[r, cs] = the derivatives of object x, for every column (block) of cs
write(mat, r, eq, cs, x) ==
    [mat EXCEPT ![r] =
        [eq |-> eq,
         cols |-> [col \in DOMAIN mat[r].cols |->
                     IF col \in cs THEN {x} ELSE mat[r].cols[col]]]]

\* solve_components; P is self.partit.  The result holds ok = FALSE when
\* data[part] raised IndexError
solve_components_of(cmps, rows, fl, par, P) ==
    LET batches == split(cmps, par, P)
        \* the residuals of a batch: data[part][0], flattened
        RECURSIVE comp_res(_)
        comp_res(cps) ==
            IF cps = <<>> THEN <<>>
            ELSE [k \in 1..num_equations(Head(cps), fl) |->
                    Eq("component", Head(cps), "", k)]
                 \o comp_res(Tail(cps))
        \* rows sum_eq .. sum_eq + num_eq of component cp
        RECURSIVE comp_rows(_, _, _, _, _)
        comp_rows(mat, cp, k, sum_eq, cols) ==
            IF k > num_equations(cp, fl) THEN mat
            ELSE comp_rows(write(mat, sum_eq + k, Eq("component", cp, "", k),
                                 cols, cp),
                           cp, k + 1, sum_eq, cols)
        \* the loop over the components of one batch; a holds mat, sum_eq
        \* and c_var
        RECURSIVE merge_comps(_, _)
        merge_comps(a, cps) ==
            IF cps = <<>> THEN a
            ELSE LET cp == Head(cps)
                     blocks == {get_loc(rows, c) :
                                  c \in Range(comp_i(rows, cp)
                                              \o comp_o(rows, cp))}
                     cvs == {Len(rows) + a.c_var + j :
                               j \in 1..num_c_vars_of(cp)}
                 IN  IF kind(cp) \in {"source", "sink"}
                     THEN merge_comps(a, Tail(cps))
                     ELSE merge_comps(
                            [mat |-> comp_rows(a.mat, cp, 1, a.sum_eq,
                                               blocks \cup cvs),
                             sum_eq |-> a.sum_eq + num_equations(cp, fl),
                             c_var |-> a.c_var + num_c_vars_of(cp)],
                            Tail(cps))
        \* the loop over range(self.partit): c_var starts at 0 in every part
        RECURSIVE comp_parts(_, _)
        comp_parts(a, part) ==
            IF part > P \/ ~a.ok THEN a
            ELSE IF part > Len(batches) THEN [a EXCEPT !.ok = FALSE]
            ELSE LET m == merge_comps([mat |-> a.mat, sum_eq |-> a.sum_eq,
                                       c_var |-> 0], batches[part])
                 IN  comp_parts([res |-> a.res \o comp_res(batches[part]),
                                 mat |-> m.mat, sum_eq |-> m.sum_eq,
                                 ok |-> TRUE],
                                part + 1)
    IN  comp_parts([res |-> <<>>, mat |-> zeros(cmps, rows, fl), sum_eq |-> 0,
                    ok |-> TRUE], 1)

\* solve_connections: the batches, then the fluids of every connection
solve_connections_of(res0, mat0, rows, cs, fl, par, P) ==
    LET batches == split(rows, par, P)
        positions == [i \in 1..Len(PropOrder) |-> i]
        \* the residuals of a batch that are not None
        RECURSIVE conn_res(_)
        conn_res(cns) ==
            IF cns = <<>> THEN <<>>
            ELSE LET c == Head(cns)
                     at == SelectSeq(positions,
                                     LAMBDA i : solve_prop_eq(cs, c, i))
                 IN  [j \in 1..Len(at) |-> prop_eq(c, at[j])]
                     \o conn_res(Tail(cns))
        \* the loop over data[part][1].iloc[k] of connection c, from
        \* position i
        RECURSIVE conn_rows(_, _, _)
        conn_rows(a, c, i) ==
            IF i > Len(PropOrder) THEN a
            ELSE IF ~solve_prop_deriv(cs, c, i) THEN conn_rows(a, c, i + 1)
            ELSE LET own == write(a.mat, a.sum_eq + 1, prop_eq(c, i),
                                  {get_loc(rows, c)}, c)
                     ref == IF i >= FirstRef
                            THEN write(own, a.sum_eq + 1, prop_eq(c, i),
                                       {get_loc(rows, ref_obj(rows, c))},
                                       ref_obj(rows, c))
                            ELSE own
                 IN  conn_rows([mat |-> ref, sum_eq |-> a.sum_eq + 1],
                               c, i + 1)
        \* the loop over the connections of one batch
        RECURSIVE merge_conns(_, _)
        merge_conns(a, cns) ==
            IF cns = <<>> THEN a
            ELSE merge_conns(conn_rows(a, Head(cns), 1), Tail(cns))
        \* the loop over range(self.partit)
        RECURSIVE conn_parts(_, _)
        conn_parts(a, part) ==
            IF part > P \/ ~a.ok THEN a
            ELSE IF part > Len(batches) THEN [a EXCEPT !.ok = FALSE]
            ELSE LET m == merge_conns([mat |-> a.mat, sum_eq |-> a.sum_eq],
                                      batches[part])
                 IN  conn_parts([res |-> a.res \o conn_res(batches[part]),
                                 mat |-> m.mat, sum_eq |-> m.sum_eq,
                                 ok |-> TRUE],
                                part + 1)
        \* the rows of the fixed fractions and of the fluid balance of
        \* connection rows[n] and of those after it
        RECURSIVE fluid_rows(_, _)
        fluid_rows(a, n) ==
            IF n > Len(rows) THEN a
            ELSE LET c == rows[n]
                     fixed == SelectSeq(fl, LAMBDA f :
                                              fluid_val_set(cs, fl, c, f))
                     eqs == [j \in 1..Len(fixed) |->
                               Eq("fluid", c, fixed[j], 0)]
                            \o (IF cs[c].balance
                                THEN <<Eq("balance", c, "", 0)>> ELSE <<>>)
                     row0 == Len(a.res)
                     m == [r \in DOMAIN a.mat |->
                             IF r \in (row0 + 1)..(row0 + Len(eqs))
                             THEN write(a.mat, r, eqs[r - row0], {n}, c)[r]
                             ELSE a.mat[r]]
                 IN  fluid_rows([res |-> a.res \o eqs, mat |-> m,
                                 ok |-> TRUE], n + 1)
        a == conn_parts([res |-> res0, mat |-> mat0, sum_eq |-> Len(res0),
                         ok |-> TRUE], 1)
    IN  IF a.ok
        THEN fluid_rows([res |-> a.res, mat |-> a.mat, ok |-> TRUE], 1)
        ELSE [res |-> a.res, mat |-> a.mat, ok |-> FALSE]

\* solve_busses: for every bus with P.val_set, every member assigns
\* -cp.bus_deriv(bus) to the blocks of its inlets and outlets
RECURSIVE solve_busses_of(_, _, _, _, _)
solve_busses_of(res0, mat0, bs, cmps, rows) ==
    LET r == Len(res0) + 1
        e == Eq("bus", Head(bs), "", 0)
        RECURSIVE bus_row(_, _)
        bus_row(mat, cps) ==
            IF cps = <<>> THEN mat
            ELSE LET cp == Head(cps)
                     blocks == {get_loc(rows, c) :
                                  c \in Range(comp_i(rows, cp)
                                              \o comp_o(rows, cp))}
                 IN  bus_row(write(mat, r, e, blocks, cp), Tail(cps))
    IN  IF bs = <<>> THEN [res |-> res0, mat |-> mat0]
        ELSE IF ~P_val_set(Head(bs))
             THEN solve_busses_of(res0, mat0, Tail(bs), cmps, rows)
        ELSE solve_busses_of(Append(res0, e),
                             bus_row(mat0, bus_comps(Head(bs), cmps)),
                             Tail(bs), cmps, rows)

\* vec_res and mat_deriv of one pass of solve_control, or ok = FALSE
assemble(cmps, rows, cs, fl, bs, par, P) ==
    LET a == solve_components_of(cmps, rows, fl, par, P)
        b == solve_connections_of(a.res, a.mat, rows, cs, fl, par, P)
        c == solve_busses_of(b.res, b.mat, bs, cmps, rows)
    IN  IF a.ok /\ b.ok THEN [res |-> c.res, mat |-> c.mat, ok |-> TRUE]
        ELSE [res |-> <<>>, mat |-> <<>>, ok |-> FALSE]

(***************************************************************************)
(* The assembly on its own: solve_control of a determined network up to    *)
(* the inversion, pass after pass.                                         *)
(***************************************************************************)
\* the passes of solve_control that are followed
MaxPasses == 2

PProp(vs) == [val_set |-> vs, ref_set |-> {}, fluid_set |-> {}, balance |-> FALSE]
PTempRef == [val_set |-> {"T"}, ref_set |-> {"m"}, fluid_set |-> {},
             balance |-> FALSE]

\* determined networks: A -> B -> C and Sa -> Pa -> Pb -> Ka, with and
\* without busses, of one and of two fluids
AsmSetups ==
    {[conns |-> <<"c1", "c2">>, busses |-> <<>>, fluids |-> TwoFluids,
      cset |-> [c1 |-> PFull, c2 |-> PTemp]],
     [conns |-> <<"c1", "c2">>, busses |-> <<>>, fluids |-> OneFluid,
      cset |-> [c1 |-> PFull, c2 |-> PTemp]],
     [conns |-> <<"c1", "c2">>, busses |-> TwoBusses, fluids |-> TwoFluids,
      cset |-> [c1 |-> PFull, c2 |-> PProp({"T"})]],
     [conns |-> Nets.chain, busses |-> <<"b1">>, fluids |-> TwoFluids,
      cset |-> [n1 |-> PFull, n2 |-> PTempRef, n3 |-> PProp({"p"})]],
     [conns |-> Nets.chain, busses |-> TwoBusses, fluids |-> TwoFluids,
      cset |-> [n1 |-> PFull, n2 |-> PTemp, n3 |-> PProp({"v"})]],
     [conns |-> Nets.chain, busses |-> <<>>, fluids |-> TwoFluids,
      cset |-> [n1 |-> PFull, n2 |-> PTemp, n3 |-> PProp({"p", "x"})]],
     [conns |-> Nets.chain, busses |-> <<"b1">>, fluids |-> OneFluid,
      cset |-> [n1 |-> PFull, n2 |-> PTemp, n3 |-> PProp({"p"})]]}

\* solve has passed solve_determination and has split the components and
\* connections; solve_loop calls solve_control for the first time
InitAssembly ==
    \E s \in AsmSetups, par \in BOOLEAN, cpu \in 1..MaxCores :
        /\ ~par => cpu = 1
        /\ conns = s.conns
        /\ checked = TRUE
        /\ comps = unique(ravel(conns))
        /\ label = Distinct
        /\ busses = s.busses
        /\ fluids = s.fluids
        /\ cset = s.cset
        /\ solve_determination(comps, conns, cset, fluids, busses) = NoExc
        /\ exc = NoExc
        /\ pc = "Control"
        /\ max_iter = MaxPasses
        /\ parallel = par
        /\ partit = cpu
        /\ init_file = FALSE
        /\ iter = 0
        /\ nxt = 1
        /\ res = <<>>
        /\ lin_dep = FALSE
        /\ vec_z = <<>>
        /\ errmsg = "unset"
        /\ pool = IF par THEN "open" ELSE "none"
        /\ vals = [c \in Range(conns) |->
                     [m |-> MDefault, p |-> PDefault, h |-> HDefault,
                      fluid |-> [f \in AllFluids |-> UserFrac[f]]]]
        /\ val0 = vals
        /\ cvar = CvStart
        /\ n_ctrl = 1
        /\ n_pool = IF par THEN 1 ELSE 0
        /\ todo = <<>>
        /\ stack = <<>>
        /\ hooks = 0
        /\ memo = "empty"
        /\ vec_res = <<>>
        /\ mat_deriv = <<>>

\* solve_components, after self.vec_res = [] of solve_control
solve_components ==
    /\ pc = "Control"
    /\ LET a == solve_components_of(comps, conns, fluids, parallel, partit)
       IN  /\ vec_res' = a.res
           /\ mat_deriv' = a.mat
           /\ IF a.ok THEN pc' = "Components" /\ UNCHANGED exc
              ELSE /\ pc' = "Raised"
                   /\ exc' = Exc("IndexError", "list index out of range",
                                 {}, 0, 0)
    /\ UNCHANGED <<netVars, max_iter, parallel, partit, init_file, iter, nxt,
                   res, lin_dep, vec_z, errmsg, pool, vals, val0, cvar,
                   n_ctrl, n_pool, memo>>
    /\ UNCHANGED initVars

solve_connections ==
    /\ pc = "Components"
    /\ LET a == solve_connections_of(vec_res, mat_deriv, conns, cset, fluids,
                                     parallel, partit)
       IN  /\ vec_res' = a.res
           /\ mat_deriv' = a.mat
           /\ IF a.ok THEN pc' = "Connections" /\ UNCHANGED exc
              ELSE /\ pc' = "Raised"
                   /\ exc' = Exc("IndexError", "list index out of range",
                                 {}, 0, 0)
    /\ UNCHANGED <<netVars, max_iter, parallel, partit, init_file, iter, nxt,
                   res, lin_dep, vec_z, errmsg, pool, vals, val0, cvar,
                   n_ctrl, n_pool, memo>>
    /\ UNCHANGED initVars

solve_busses ==
    /\ pc = "Connections"
    /\ LET a == solve_busses_of(vec_res, mat_deriv, busses, comps, conns)
       IN  /\ vec_res' = a.res
           /\ mat_deriv' = a.mat
    /\ pc' = "Assembled"
    /\ UNCHANGED <<netVars, exc, max_iter, parallel, partit, init_file, iter,
                   nxt, res, lin_dep, vec_z, errmsg, pool, vals, val0, cvar,
                   n_ctrl, n_pool, memo>>
    /\ UNCHANGED initVars

\* the loop of solve_loop calls solve_control again: self.vec_res = []
next_pass ==
    /\ pc = "Assembled"
    /\ nxt < max_iter
    /\ pc' = "Control"
    /\ iter' = nxt
    /\ nxt' = nxt + 1
    /\ n_ctrl' = n_ctrl + 1
    /\ vec_res' = <<>>
    /\ UNCHANGED <<netVars, exc, max_iter, parallel, partit, init_file, res,
                   lin_dep, vec_z, errmsg, pool, vals, val0, cvar, n_pool,
                   memo, mat_deriv>>
    /\ UNCHANGED initVars

NextAssembly ==
    \/ solve_components
    \/ solve_connections
    \/ solve_busses
    \/ next_pass

SpecAssembly == InitAssembly /\ [][NextAssembly]_vars

(***************************************************************************)
(* Properties of the assembly.                                             *)
(***************************************************************************)
\* vec_res and mat_deriv of the same pass in a sequential solve
C24_Sequential == assemble(comps, conns, cset, fluids, busses, FALSE, 1)

\* C24: merging the batches of a parallel evaluation gives, for any number
\* of workers, the residual vector and the Jacobian of the sequential
\* evaluation of the same state, entry by entry: every row, every column
\* block of a connection and every column of a free variable
C24_MergedEqualsSequential ==
    (parallel /\ pc \in {"Assembled", "Raised"}) =>
        /\ pc = "Assembled"
        /\ vec_res = C24_Sequential.res
        /\ mat_deriv = C24_Sequential.mat


\* C26: in every pass after a passed check of the degrees of freedom the
\* assembled system is square and its rows are aligned: the sections of the
\* components, connection properties, references, fluids and busses append
\* as many residuals as there are unknowns, the Jacobian has that many rows
\* and columns, and the k-th residual and the k-th row of the Jacobian
\* come from the same equation
C26_SquareAndAligned ==
    pc = "Assembled" =>
        /\ Len(vec_res) = num_vars(fluids) * Len(conns) + num_c_vars(comps)
        /\ Len(mat_deriv) = Len(vec_res)
        /\ \A k \in 1..Len(mat_deriv) :
              /\ DOMAIN mat_deriv[k].cols = 1..(Len(conns) + num_c_vars(comps))
              /\ mat_deriv[k].eq = vec_res[k]
              /\ vec_res[k] # NoEq

\* the second pass of a parallel solve has assembled a system that holds
\* rows of every section
C26_Witness ==
    /\ pc = "Assembled"
    /\ parallel /\ partit > 1
    /\ iter > 0
    /\ {"component", "prop", "ref", "fluid", "bus"}
          \subseteq {vec_res[k].sec : k \in 1..Len(vec_res)}


\* the components of bus b that connection c enters or leaves
C27_Incident(b, c) ==
    {cp \in Range(bus_comps(b, comps)) : cp \in {ConnObj[c].s, ConnObj[c].t}}

\* C27: the Jacobian row of every bus with fixed power holds, in the column
\* block of each connection, the negated sum of the derivatives of all
\* members of the bus incident to that connection: the contributions of
\* both when two members share a connection
C27_BusRowSumsMembers ==
    pc = "Assembled" =>
        \A k \in 1..Len(vec_res) :
            vec_res[k].sec = "bus" =>
                \A n \in 1..Len(conns) :
                    mat_deriv[k].cols[n] = C27_Incident(vec_res[k].of, conns[n])


(***************************************************************************)
(* The two directions of the propagation.                                  *)
(***************************************************************************)
\* the component a call in progress has arrived at
C28_At(fr) == IF fr.fn = "target" THEN ConnObj[fr.c].t ELSE ConnObj[fr.c].s

\* the connections on the far side of that component
C28_FarSide(fr) ==
    IF fr.fn = "target" THEN comp_o(conns, C28_At(fr))
    ELSE comp_i(conns, C28_At(fr))

\* the call of the other direction that arrives at the same component by
\* connection d
C28_Opposite(fr, d) ==
    [fn |-> IF fr.fn = "target" THEN "source" ELSE "target", c |-> d,
     start |-> fr.start, k |-> 0]

\* the call goes on iff every call of the other direction that arrives at
\* the same component goes on
C28_BothOrNeither(fr) ==
    \A j \in 1..Len(C28_FarSide(fr)) :
        (visits(conns, fr) # <<>>)
            <=> (visits(conns, C28_Opposite(fr, C28_FarSide(fr)[j])) # <<>>)

\* the call copies to every connection on the far side
C28_ForksToAll(fr) ==
    {visits(conns, fr)[j].d : j \in 1..Len(visits(conns, fr))}
        = Range(C28_FarSide(fr))

MaxRepairPass == 4

\* pressures and enthalpies around the limits of the global ranges, of the
\* ranges of the fluid and of the temperature range
RepairPressures ==
    {PRangeLo - 1, PRangeLo, PMinFl - 1, PDefault, PRangeHi, PRangeHi + 1,
     PMaxFl + 1}
RepairEnthalpies ==
    {0 - 1, HRangeLo - 1, HMinFl - 1, HTMin - 1, HDefault, HTMax + 1,
     HMaxFl + 1, HRangeHi + 1}

\* solve_control has added the increment to the connection, whose fluid is
\* pure or a mixture
InitRepair ==
    \E p0 \in RepairPressures, h0 \in RepairEnthalpies,
       vs \in SUBSET {"p", "h", "T"}, pure \in BOOLEAN,
       it \in 0..MaxRepairPass, initf \in BOOLEAN :
        /\ conns = <<"c1">>
        /\ checked = TRUE
        /\ comps = unique(ravel(conns))
        /\ label = Distinct
        /\ busses = <<>>
        /\ fluids = TwoFluids
        /\ cset = [c1 |-> PProp(vs)]
        /\ exc = NoExc
        /\ pc = "Incremented"
        /\ max_iter = MaxRepairPass + 1
        /\ parallel = FALSE
        /\ partit = 1
        /\ init_file = initf
        /\ iter = it
        /\ nxt = it + 1
        /\ res = <<>>
        /\ lin_dep = FALSE
        /\ vec_z = <<>>
        /\ errmsg = "unset"
        /\ pool = "none"
        /\ vals = [c1 |-> [m |-> MDefault, p |-> p0, h |-> h0,
                           fluid |-> [f \in AllFluids |->
                                        IF pure
                                        THEN (IF f = "f1" THEN FracOne ELSE 0)
                                        ELSE UserFrac[f]]]]
        /\ val0 = vals
        /\ cvar = CvStart
        /\ n_ctrl = it + 1
        /\ n_pool = 0
        /\ todo = <<>>
        /\ stack = <<>>
        /\ hooks = 0
        /\ memo = "empty"
        /\ vec_res = <<>>
        /\ mat_deriv = <<>>

\* self.solve_check_props(c) at the end of the loop of solve_control
check_props ==
    /\ pc = "Incremented"
    /\ vals' = [c \in DOMAIN vals |->
                  solve_check_props(vals[c], cset[c], fluids, iter, init_file)]
    /\ pc' = "Repaired"
    /\ UNCHANGED <<netVars, exc, max_iter, parallel, partit, init_file, iter,
                   nxt, res, lin_dep, vec_z, errmsg, pool, val0, cvar, n_ctrl,
                   n_pool, memo>>
    /\ UNCHANGED initVars
    /\ UNCHANGED asmVars

SpecRepair == InitRepair /\ [][check_props]_vars

\* p and h of connection c, where not fixed, lie in the global ranges
C29_InGlobalRanges(v, c) ==
    /\ "p" \notin cset[c].val_set => v[c].p \in PRangeLo..PRangeHi
    /\ "h" \notin cset[c].val_set => v[c].h \in HRangeLo..HRangeHi

\* p and h of connection c, where fixed, are the same in v and w
C29_FixedKept(v, w, c) ==
    /\ "p" \in cset[c].val_set => w[c].p = v[c].p
    /\ "h" \in cset[c].val_set => w[c].h = v[c].h

\* C29: the clamp to the global ranges acts in the first three passes of a
\* solve without init file and on every connection, of a pure fluid or of a
\* mixture: after the repair every pressure and enthalpy that is not fixed
\* lies in the global range; from the fourth pass on, or with an init file,
\* the global clamp changes nothing; fixed values are never changed
C29_GlobalClampOnEveryConnection ==
    [][(pc = "Incremented" /\ pc' = "Repaired") =>
          \A c \in Range(conns) :
              /\ (iter < RepairIter /\ ~init_file)
                    => C29_InGlobalRanges(vals', c)
              /\ ((iter >= RepairIter \/ init_file)
                      /\ single_fluid(vals[c].fluid, fluids) = {})
                    => vals'[c] = vals[c]
              /\ C29_FixedKept(vals, vals', c)]_vars


(***************************************************************************)
(* The first loop of init_fluids on its own: the dicts fluid.val,          *)
(* fluid.val0 and fluid.val_set of a connection may each lack a fluid.     *)
(***************************************************************************)
\* stands for a key a dict does not hold
NoKey == 0 - 1

\* the starting value the caller gave (fluid.val0)
StartFrac == FracOne \div 2

\* what the first loop leaves for fluid f of a connection: x and x0 are
\* tmp[f] and tmp0[f] (NoKey if absent), keys the keys of tmp_set, flags
\* those with tmp_set[f] = True; has says whether the new dicts hold f
first_loop(x, x0, keys, flags, f, fl) ==
    LET entry(v, s) == [has |-> TRUE, val |-> v, val0 |-> v, val_set |-> s]
    IN  IF Len(fl) = 1 THEN entry(FracOne, f \in keys /\ f \in flags)
        ELSE IF x # NoKey /\ f \in keys THEN entry(x, f \in flags)
        ELSE IF x0 # NoKey
             THEN IF f \in keys
                  THEN IF f \notin flags THEN entry(x0, FALSE)
                       ELSE [has |-> FALSE, val |-> NoKey, val0 |-> NoKey,
                             val_set |-> FALSE]
                  ELSE entry(x0, FALSE)
        ELSE entry(0, FALSE)

\* the connection of a network A -> B as the caller built it: for every
\* fluid a value or none, a starting value or none, and no flag, the flag
\* False or the flag True
InitEntries ==
    \E fl \in {TwoFluids, OneFluid},
       given \in SUBSET Range(TwoFluids), started \in SUBSET Range(TwoFluids),
       keys \in SUBSET Range(TwoFluids) :
        \E flags \in SUBSET keys :
            /\ conns = <<"c1">>
            /\ checked = TRUE
            /\ comps = unique(ravel(conns))
            /\ label = Distinct
            /\ busses = <<>>
            /\ fluids = fl
            /\ cset = [c1 |-> [val_set |-> {}, ref_set |-> {},
                               fluid_set |-> flags, balance |-> FALSE,
                               fluid_keys |-> keys]]
            /\ exc = NoExc
            /\ pc = "Checked"
            /\ max_iter = 0
            /\ parallel = FALSE
            /\ partit = 1
            /\ init_file = FALSE
            /\ iter = 0
            /\ nxt = 0
            /\ res = <<>>
            /\ lin_dep = FALSE
            /\ vec_z = <<>>
            /\ errmsg = "unset"
            /\ pool = "none"
            /\ vals = [c1 |-> [m |-> MDefault, p |-> PDefault, h |-> HDefault,
                               fluid |-> [f \in AllFluids |->
                                            IF f \in given THEN UserFrac[f]
                                            ELSE NoKey]]]
            /\ val0 = [c1 |-> [m |-> MDefault, p |-> PDefault, h |-> HDefault,
                               fluid |-> [f \in AllFluids |->
                                            IF f \in started THEN StartFrac
                                            ELSE NoKey]]]
            /\ cvar = CvStart
            /\ n_ctrl = 0
            /\ n_pool = 0
            /\ todo = <<>>
            /\ stack = <<>>
            /\ hooks = 0
            /\ memo = "empty"
            /\ vec_res = <<>>
            /\ mat_deriv = <<>>

\* the first loop of init_fluids builds the three dicts anew
init_fluids_dicts ==
    /\ pc = "Checked"
    /\ LET e(c, f) == first_loop(vals[c].fluid[f], val0[c].fluid[f],
                                 cset[c].fluid_keys, cset[c].fluid_set, f,
                                 fluids)
           new(c, f) == IF f \in Range(fluids) THEN e(c, f)
                        ELSE [has |-> FALSE, val |-> NoKey, val0 |-> NoKey,
                              val_set |-> FALSE]
       IN  /\ vals' = [c \in DOMAIN vals |->
                         [vals[c] EXCEPT
                            !.fluid = [f \in AllFluids |-> new(c, f).val]]]
           /\ val0' = [c \in DOMAIN val0 |->
                         [val0[c] EXCEPT
                            !.fluid = [f \in AllFluids |-> new(c, f).val0]]]
           /\ cset' = [c \in DOMAIN cset |->
                         [cset[c] EXCEPT
                            !.fluid_keys = {f \in AllFluids : new(c, f).has},
                            !.fluid_set = {f \in AllFluids :
                                             new(c, f).val_set}]]
    /\ pc' = "Built"
    /\ UNCHANGED <<conns, checked, comps, label, busses, fluids, exc,
                   max_iter, parallel, partit, init_file, iter, nxt, res,
                   lin_dep, vec_z, errmsg, pool, cvar, n_ctrl, n_pool, memo>>
    /\ UNCHANGED initVars
    /\ UNCHANGED asmVars

SpecEntries == InitEntries /\ [][init_fluids_dicts]_vars

\* C30: after the fluid initialisation, whatever values, starting values
\* and flags the caller supplied (a flag without a value, a starting value
\* only), fluid.val and fluid.val_set of every connection hold one entry
\* for every fluid of the network, so that every later read per fluid finds
\* its entry; a fraction that was never supplied is 0 and not fixed
C30_EntryForEveryFluid ==
    pc = "Built" =>
        \A c \in Range(conns) :
            /\ \A f \in Range(fluids) :
                  /\ vals[c].fluid[f] # NoKey
                  /\ f \in cset[c].fluid_keys
            /\ {f \in AllFluids : vals[c].fluid[f] # NoKey} = Range(fluids)
            /\ cset[c].fluid_keys = Range(fluids)

====
